---- MODULE Spec2Model ----
(***************************************************************************)
(* Model of the coupon allocation-and-eligibility engine of src/main.py:   *)
(* the policy store (system_config), the award ledger (coupon_pool and     *)
(* claim_records), the eligibility evaluator, the tier selector and the    *)
(* claim handler, whose coroutine is split at its await points.            *)
(*                                                                         *)
(* Time is counted in whole minutes.  Tier values are whole dollars.       *)
(* NULL columns are modelled by the sentinels below.                       *)
(***************************************************************************)
EXTENDS Integers, Sequences, FiniteSets, TLC

\* ---------------------------------------------------------------- bounds
NumReqs == 2
NumUsers == 2
MaxTime == 2
MaxCooldown == 2
MaxClaimTimes == 2
MaxStock == 1
MaxManual == 2
MaxBatch == 2
MaxEdits == 1
MaxHist == 2

\* ------------------------------------------------------------- sentinels
NoUser == 0
NoTime == 0 - 1
NoCode == 0
NoQuota == 0
DrawRaises == 0 - 1
MintBase == 100
NoToken == 0

\* timedelta(days=7), in minutes
SessionLifetime == 10080

Reqs == 1..NumReqs
Users == 1..NumUsers
ManualCodes == 1..MaxManual

Min2(a, b) == IF a <= b THEN a ELSE b
Max2(a, b) == IF a >= b THEN a ELSE b

\* ------------------------------------------------- tier keys (JSON keys)
\* The keys of the quota_weights and quota_stock JSON objects are strings:
\* "1" and "1.0" spell the same tier.

\* float(q_str)
ParseFloat(k) ==
    CASE k = "1" -> 1
      [] k = "1.0" -> 1
      [] k = "100" -> 100
      [] k = "100.0" -> 100

\* str(quota) for a float
FloatStr(q) == IF q = 1 THEN "1.0" ELSE "100.0"

\* str(int(quota))
IntStr(q) == IF q = 1 THEN "1" ELSE "100"

\* quota == int(quota): every modelled tier value is a whole number
IsWhole(q) == q \in Int

get_stock_key(quota_stock, quota) ==
    IF FloatStr(quota) \in DOMAIN quota_stock THEN FloatStr(quota)
    ELSE IF IsWhole(quota) /\ IntStr(quota) \in DOMAIN quota_stock THEN IntStr(quota)
    ELSE FloatStr(quota)

\* quota_stock.get(stock_key, 0)
StockGet(quota_stock, key) ==
    IF key \in DOMAIN quota_stock THEN quota_stock[key] ELSE 0

RECURSIVE SumOver(_, _)
SumOver(f, S) ==
    IF S = {} THEN 0
    ELSE LET k == CHOOSE x \in S : TRUE
         IN  f[k] + SumOver(f, S \ {k})

\* ------------------------------------------------------------ the state
VARIABLES
    clock,      \* now_utc(), in minutes
    cfg,        \* system_config: the policy, one field per config_key
    pool,       \* coupon_pool: set of rows
    records,    \* claim_records: sequence of rows in id order
    req,        \* the claim_coupon coroutines, one per request
    mintCalls,  \* number of codes the remote ledger has created
    edits,      \* number of admin operations performed
    ret,        \* what the last read-only call returned
    sessions    \* user_sessions: the rows, and how many tokens were issued

vars == <<clock, cfg, pool, records, req, mintCalls, edits, ret, sessions>>

\* ---------------------------------------------------------- policy store
get_cooldown_minutes(c) == c.cooldown_minutes

get_claim_times(c) == Max2(1, c.claim_times)

get_quota_weights(c) == c.quota_weights

get_quota_stock(c) == c.quota_stock

get_claim_mode(c) == IF c.claim_mode \in {"A", "B"} THEN c.claim_mode ELSE "B"

get_probability_mode(c) ==
    IF c.probability_mode \in {"weight_only", "weight_stock"}
    THEN c.probability_mode ELSE "weight_stock"

\* --------------------------------------------------------- award ledger
\* db.query(CouponPool).filter(is_claimed == False, quota_dollars == quota)
UnclaimedOf(p, quota) ==
    {row \in p : ~row.is_claimed /\ row.quota_dollars = quota}

Unclaimed(p) == {row \in p : ~row.is_claimed}

PoolCodes(p) == {row.coupon_code : row \in p}

\* the INTEGER PRIMARY KEY the store gives the next inserted row
NextId(p) ==
    IF p = {} THEN 1
    ELSE 1 + (CHOOSE m \in {row.id : row \in p} : \A row \in p : row.id <= m)

\* ------------------------------------------------- eligibility evaluator
\* mutant: the lookback is half a cooldown
recent_claims_NarrowLookback(recs, c, user_id, now) ==
    {i \in DOMAIN recs :
        /\ recs[i].user_id = user_id
        /\ 2 * recs[i].claim_time >= 2 * now - c.cooldown_minutes}

\* mutant: the query does not filter on user_id
recent_claims_AnyUser(recs, c, user_id, now) ==
    {i \in DOMAIN recs : recs[i].claim_time >= now - 2 * c.cooldown_minutes}

\* the query of lines 506-509: the user's records inside the lookback
recent_claims(recs, c, user_id, now) ==
    {i \in DOMAIN recs :
        /\ recs[i].user_id = user_id
        /\ recs[i].claim_time >= now - 2 * get_cooldown_minutes(c)}

config_expires(rec, c) == rec.claim_time + get_cooldown_minutes(c)

\* mutant: the stored expiry is ignored
actual_expires_ConfigOnly(rec, c) == config_expires(rec, c)

\* mutant: the current cooldown is ignored
actual_expires_StoredOnly(rec, c) ==
    IF rec.cooldown_expires_at # NoTime
    THEN rec.cooldown_expires_at ELSE config_expires(rec, c)

\* mutant: max instead of min
actual_expires_Max(rec, c) ==
    IF rec.cooldown_expires_at # NoTime
    THEN Max2(config_expires(rec, c), rec.cooldown_expires_at)
    ELSE config_expires(rec, c)

actual_expires(rec, c) ==
    IF rec.cooldown_expires_at # NoTime
    THEN Min2(config_expires(rec, c), rec.cooldown_expires_at)
    ELSE config_expires(rec, c)

\* mutant: the comparison of line 516 is inverted
active_claims_Inverted(recs, c, user_id, now) ==
    {i \in recent_claims(recs, c, user_id, now) :
        now >= Min2(config_expires(recs[i], c), recs[i].cooldown_expires_at)}

active_claims(recs, c, user_id, now) ==
    {i \in recent_claims(recs, c, user_id, now) : now < actual_expires(recs[i], c)}

\* mutant: the latest expiry is taken
SetMin_Latest(S) == CHOOSE x \in S : \A y \in S : x >= y

SetMin(S) == CHOOSE x \in S : \A y \in S : x <= y

\* mutant: remaining_claims is not clamped at zero
calculate_user_cooldown_status_NoClamp(recs, c, user_id, now) ==
    LET active == {i \in recent_claims(recs, c, user_id, now) :
                      now < Min2(config_expires(recs[i], c), recs[i].cooldown_expires_at)}
        claims_in_period == Cardinality(active)
        claim_times == Max2(1, c.claim_times)
    IN  [can_claim |-> claims_in_period < claim_times,
         remaining_claims |-> claim_times - claims_in_period,
         cooldown_seconds |-> 0]

calculate_user_cooldown_status(recs, c, user_id, now) ==
    LET active == active_claims(recs, c, user_id, now)
        claims_in_period == Cardinality(active)
        claim_times == get_claim_times(c)
        earliest_expiry == SetMin({actual_expires(recs[i], c) : i \in active})
        blocked == /\ claims_in_period >= claim_times
                   /\ active # {}
                   /\ now < earliest_expiry
    IN  [can_claim |-> ~blocked,
         remaining_claims |-> Max2(0, claim_times - claims_in_period),
         cooldown_seconds |-> IF blocked THEN (earliest_expiry - now) * 60 ELSE 0]

\* --------------------------------------------------------- tier selector
\* mutant: claimed coupons are counted as local inventory
get_total_available_stock_CountsClaimed(c, p) ==
    LET virtual_total == SumOver([k \in DOMAIN c.quota_stock |-> Max2(0, c.quota_stock[k])],
                                 DOMAIN c.quota_stock)
    IN  IF get_claim_mode(c) = "A"
        THEN Max2(Cardinality(p), virtual_total)
        ELSE virtual_total

get_total_available_stock(c, p) ==
    LET quota_stock == get_quota_stock(c)
        clipped == [k \in DOMAIN quota_stock |-> Max2(0, quota_stock[k])]
        virtual_total == SumOver(clipped, DOMAIN clipped)
    IN  IF get_claim_mode(c) = "A"
        THEN Max2(Cardinality(Unclaimed(p)), virtual_total)
        ELSE virtual_total

\* mutant: local inventory is consulted in both modes
effective_stock_AlwaysLocal(c, p, q_str) ==
    Max2(Cardinality(UnclaimedOf(p, ParseFloat(q_str))),
         StockGet(c.quota_stock, get_stock_key(c.quota_stock, ParseFloat(q_str))))

\* effective_stock of lines 418-429 for one key of quota_weights
effective_stock(c, p, q_str) ==
    LET quota == ParseFloat(q_str)
        quota_stock == get_quota_stock(c)
        virtual_stock == StockGet(quota_stock, get_stock_key(quota_stock, quota))
    IN  IF get_claim_mode(c) = "A"
        THEN Max2(Cardinality(UnclaimedOf(p, quota)), virtual_stock)
        ELSE virtual_stock

actual_weight(c, p, q_str) ==
    IF get_probability_mode(c) = "weight_only"
    THEN get_quota_weights(c)[q_str]
    ELSE get_quota_weights(c)[q_str] * effective_stock(c, p, q_str)

\* mutant: tiers without stock stay in the draw
available_NoStockFilter(c, p) == DOMAIN c.quota_weights

\* the keys of quota_weights that enter the list "available"
available(c, p) ==
    {q_str \in DOMAIN get_quota_weights(c) : effective_stock(c, p, q_str) > 0}

\* Every value draw_random_quota can produce: NoQuota for None, DrawRaises
\* when random.choices rejects a weight total of zero, otherwise the quota
\* of an available entry of positive weight.
draw_random_quota(c, p) ==
    LET avail == available(c, p)
        weights == [k \in avail |-> actual_weight(c, p, k)]
    IN  IF avail = {} THEN {NoQuota}
        ELSE IF SumOver(weights, avail) <= 0 THEN {DrawRaises}
        ELSE {ParseFloat(k) : k \in {a \in avail : weights[a] > 0}}

\* mutant: the stock is decremented without the test current > 0
deduct_virtual_stock_Unchecked(c, quota) ==
    LET quota_stock == c.quota_stock
        stock_key == get_stock_key(quota_stock, quota)
        current == StockGet(quota_stock, stock_key)
    IN  [ok |-> TRUE,
         stock |-> [k \in DOMAIN quota_stock \cup {stock_key} |->
                       IF k = stock_key THEN current - 1 ELSE quota_stock[k]]]

\* The stock map after deduct_virtual_stock, and its return value.
deduct_virtual_stock(c, quota) ==
    LET quota_stock == get_quota_stock(c)
        stock_key == get_stock_key(quota_stock, quota)
        current == StockGet(quota_stock, stock_key)
    IN  IF current > 0
        THEN [ok |-> TRUE,
              stock |-> [k \in DOMAIN quota_stock \cup {stock_key} |->
                            IF k = stock_key THEN current - 1 ELSE quota_stock[k]]]
        ELSE [ok |-> FALSE, stock |-> quota_stock]

\* mutant: local inventory is never used
get_local_coupon_None(p, quota) == {row \in p : FALSE}

\* mutant: the is_claimed filter is missing
get_local_coupon_AnyCoupon(p, quota) == {row \in p : row.quota_dollars = quota}

get_local_coupon(p, quota) == UnclaimedOf(p, quota)

\* ----------------------------------------------------- inputs of the model
CooldownInputs == 0..MaxCooldown
ClaimTimesInputs == 0..MaxClaimTimes
ModeInputs == {"A", "B"}
ProbabilityInputs == {"weight_only", "weight_stock"}

WeightInputs ==
    { ("1" :> 50 @@ "100" :> 1),
      ("1.0" :> 1 @@ "100" :> 0),
      ("100" :> 0) }

StockInputs ==
    [{"1", "100"} -> 0..MaxStock] \cup
    { ("1" :> 0 @@ "1.0" :> 1 @@ "100" :> 0),
      ("100" :> 1) }

ConfigKeys ==
    {"cooldown_minutes", "claim_times", "quota_weights", "quota_stock",
     "claim_mode", "probability_mode"}

Policies ==
    [cooldown_minutes : CooldownInputs,
     claim_times : ClaimTimesInputs,
     quota_weights : WeightInputs,
     quota_stock : StockInputs,
     claim_mode : ModeInputs,
     probability_mode : ProbabilityInputs]

\* --------------------------------------------------------- session store
Tokens == 1..(NumUsers + NumReqs)

\* mutant: the filter on expires_at is missing
get_session_NoExpiry(sess, token, now) ==
    IF token = NoToken THEN {}
    ELSE {row \in sess.rows : row.session_token = token}

\* the rows the query of get_session matches: empty for None
get_session(sess, token, now) ==
    IF token = NoToken THEN {}
    ELSE {row \in sess.rows : row.session_token = token /\ row.expires_at > now}

\* the user's old sessions are deleted and one with a new token is stored
create_session(sess, user_id, main_session, now) ==
    [rows |-> {row \in sess.rows : row.user_id # user_id}
                \cup {[session_token |-> sess.issued + 1,
                       user_id |-> user_id,
                       main_site_session |-> main_session,
                       expires_at |-> now + SessionLifetime]},
     issued |-> sess.issued + 1]

delete_session(sess, token) ==
    [sess EXCEPT !.rows = {row \in sess.rows : row.session_token # token}]

\* ------------------------------------------------------- claim coroutine
IdleReq ==
    [pc |-> "idle", coupon_session |-> NoToken, session |-> FALSE,
     user_info |-> NoUser, user_id |-> NoUser, has_main |-> FALSE, now |-> NoTime,
     cooldown_minutes |-> 0, claim_times |-> 0, remaining_claims |-> 0,
     claim_mode |-> "B",
     quota |-> NoQuota, coupon_code |-> NoCode, deducted |-> FALSE,
     topup |-> "none", auto_redeemed |-> FALSE, outcome |-> "none", saw |-> {}]

InFlight(r) == req[r].pc \in {"minting", "topup"}

\* mutant: the expiry is stamped with the cooldown stored at commit time
NewClaimRecord_FreshCooldown(q) ==
    [user_id |-> q.user_id,
     coupon_code |-> q.coupon_code,
     quota_dollars |-> q.quota,
     claim_time |-> q.now,
     cooldown_expires_at |-> q.now + cfg.cooldown_minutes,
     auto_redeemed |-> q.auto_redeemed]

NewClaimRecord(q) ==
    [user_id |-> q.user_id,
     coupon_code |-> q.coupon_code,
     quota_dollars |-> q.quota,
     claim_time |-> q.now,
     cooldown_expires_at |-> q.now + q.cooldown_minutes,
     auto_redeemed |-> q.auto_redeemed]

NewCoupon(q, id) ==
    [id |-> id,
     coupon_code |-> q.coupon_code,
     quota_dollars |-> q.quota,
     is_claimed |-> TRUE,
     claimed_by_user_id |-> q.user_id,
     claimed_at |-> q.now,
     source |-> "api"]

ManualCoupon(code, quota, id) ==
    [id |-> id,
     coupon_code |-> code,
     quota_dollars |-> quota,
     is_claimed |-> FALSE,
     claimed_by_user_id |-> NoUser,
     claimed_at |-> NoTime,
     source |-> "manual"]

\* mutant: the claimant is written but is_claimed is not set
MarkClaimed_FlagMissing(row, q) ==
    [row EXCEPT !.claimed_by_user_id = q.user_id, !.claimed_at = q.now]

\* lines 749-753: the local coupon is marked claimed in place
MarkClaimed(row, q) ==
    [row EXCEPT !.is_claimed = TRUE,
                !.claimed_by_user_id = q.user_id,
                !.claimed_at = q.now]

\* What the caller of claim_coupon receives for each outcome: the HTTP
\* status and the detail text (the texts are glossed in English; the
\* minutes inside the cooling text are left out).
claim_error(outcome) ==
    CASE outcome = "cooling" -> [status_code |-> 400, detail |-> "cooling down, retry later"]
      [] outcome = "exhausted" -> [status_code |-> 400, detail |-> "all codes claimed, wait for restock"]
      [] outcome = "no_quota" -> [status_code |-> 400, detail |-> "no code available"]
      [] outcome = "mint_failed" -> [status_code |-> 500, detail |-> "code generation failed"]
      [] outcome = "draw_error" -> [status_code |-> 500, detail |-> "Internal Server Error"]
      [] outcome = "unauthorized" -> [status_code |-> 401, detail |-> "log in first"]
      [] OTHER -> [status_code |-> 200, detail |-> "none"]

\* the data of the response of lines 803-812
claim_response(q) ==
    [coupon_code |-> q.coupon_code,
     quota |-> q.quota,
     remaining_claims |-> q.remaining_claims - 1,
     auto_redeemed |-> q.auto_redeemed,
     claim_mode |-> q.claim_mode]

\* HTTPException raised before anything was written
Reject(r, q, why) ==
    /\ req' = [req EXCEPT ![r] = [q EXCEPT !.pc = "done", !.outcome = why]]
    /\ UNCHANGED <<cfg, pool, records, mintCalls>>

\* mutant: the ClaimRecord is committed without the pending new_coupon
CommitMinted_RecordOnly(r, q) ==
    /\ pool' = pool
    /\ records' = Append(records, NewClaimRecord(q))
    /\ req' = [req EXCEPT ![r] = [q EXCEPT !.pc = "done", !.outcome = "success"]]

\* lines 790-812 for a freshly minted code: the pending new_coupon and the
\* ClaimRecord are flushed and committed together
CommitMinted(r, q) ==
    /\ pool' = pool \cup {NewCoupon(q, NextId(pool))}
    /\ records' = Append(records, NewClaimRecord(q))
    /\ req' = [req EXCEPT ![r] = [q EXCEPT !.pc = "done", !.outcome = "success"]]

\* claim_coupon from line 719, where the session is known, to its first
\* await (or to its end); cookies are the cookies and the main site's
\* answer the request came with
ClaimBody(r, user_id, has_main, cookies) ==
    /\ LET status == calculate_user_cooldown_status(records, cfg, user_id, clock)
           q0 == [IdleReq EXCEPT
                    !.coupon_session = cookies.coupon_session,
                    !.session = cookies.session,
                    !.user_info = cookies.user_info,
                    !.user_id = user_id,
                    !.has_main = has_main,
                    !.now = clock,
                    !.cooldown_minutes = get_cooldown_minutes(cfg),
                    !.claim_times = get_claim_times(cfg),
                    !.remaining_claims = status.remaining_claims,
                    !.saw = {o \in Reqs : InFlight(o)}]
       IN  /\ UNCHANGED <<clock, edits, ret>>
           /\ IF ~status.can_claim
              THEN Reject(r, q0, "cooling")
              ELSE IF get_total_available_stock(cfg, pool) <= 0
              THEN Reject(r, q0, "exhausted")
              ELSE \E quota \in draw_random_quota(cfg, pool) :
                   LET q1 == [q0 EXCEPT !.claim_mode = get_claim_mode(cfg),
                                        !.quota = quota]
                   IN  IF quota = NoQuota THEN Reject(r, q0, "no_quota")
                       ELSE IF quota = DrawRaises THEN Reject(r, q0, "draw_error")
                       ELSE IF q1.claim_mode = "A" /\ get_local_coupon(pool, quota) # {}
                       THEN \E local_coupon \in get_local_coupon(pool, quota) :
                            LET q2 == [q1 EXCEPT !.coupon_code = local_coupon.coupon_code]
                            IN  /\ pool' = (pool \ {local_coupon})
                                              \cup {MarkClaimed(local_coupon, q2)}
                                /\ records' = Append(records, NewClaimRecord(q2))
                                /\ req' = [req EXCEPT ![r] =
                                             [q2 EXCEPT !.pc = "done", !.outcome = "success"]]
                                /\ UNCHANGED <<cfg, mintCalls>>
                       ELSE /\ req' = [req EXCEPT ![r] = [q1 EXCEPT !.pc = "minting"]]
                            /\ UNCHANGED <<cfg, pool, records, mintCalls>>

\* claim_coupon from its entry to its first await (or to its end).
\* coupon_session is the local cookie, session tells whether the main-site
\* cookie is present.  A request whose local cookie names no valid session
\* and that carries a main-site cookie is suspended in
\* verify_user_by_main_session (line 711); the cookie is not looked up
\* again when that call returns.
claim_coupon(r, coupon_session, session) ==
    LET cookies == [coupon_session |-> coupon_session, session |-> session,
                    user_info |-> NoUser]
        arrived == [IdleReq EXCEPT !.coupon_session = coupon_session,
                                   !.session = session]
        found == get_session(sessions, coupon_session, clock)
    IN  /\ req[r].pc = "idle"
        /\ \A o \in Reqs : o < r => req[o].pc # "idle"
        /\ UNCHANGED sessions
        /\ IF found # {}
           THEN \E row \in found :
                    ClaimBody(r, row.user_id, row.main_site_session, cookies)
           ELSE IF session
           THEN /\ req' = [req EXCEPT ![r] = [arrived EXCEPT !.pc = "verifying"]]
                /\ UNCHANGED <<clock, cfg, pool, records, mintCalls, edits, ret>>
           ELSE /\ Reject(r, arrived, "unauthorized")
                /\ UNCHANGED <<clock, edits, ret>>

\* verify_user_by_main_session returns to claim_coupon (line 711) with
\* user_info, the user the main site confirms the cookie as, or NoUser:
\* the user is logged in (line 713) and the handler runs to its next
\* await, or the request is answered 401 (line 717)
VerifyReturn(r, user_info) ==
    LET cookies == [coupon_session |-> req[r].coupon_session,
                    session |-> req[r].session, user_info |-> user_info]
    IN  /\ req[r].pc = "verifying"
        /\ IF user_info # NoUser
           THEN /\ sessions.issued + 1 \in Tokens
                /\ sessions' = create_session(sessions, user_info, TRUE, clock)
                /\ ClaimBody(r, user_info, TRUE, cookies)
           ELSE /\ Reject(r, req[r], "unauthorized")
                /\ UNCHANGED <<clock, edits, ret, sessions>>

\* the user sends the claim request with the cookie of their local session
ClaimStart(r, user_id) ==
    \E row \in sessions.rows :
        /\ row.user_id = user_id
        /\ claim_coupon(r, row.session_token, FALSE)

\* auth_logout: the session of the local cookie, if the request has one, is
\* deleted; the answer is {"success": true} in every case
auth_logout(coupon_session) ==
    /\ sessions' = IF coupon_session # NoToken
                   THEN delete_session(sessions, coupon_session)
                   ELSE sessions
    /\ UNCHANGED <<clock, cfg, pool, records, req, mintCalls, edits, ret>>

\* mutant: the stock is deducted before the returned code is looked at
MintReturn_DeductFirst(r, ok) ==
    /\ req[r].pc = "minting"
    /\ UNCHANGED <<clock, edits, ret, sessions>>
    /\ cfg' = [cfg EXCEPT !.quota_stock = deduct_virtual_stock(cfg, req[r].quota).stock]
    /\ IF ~ok
       THEN /\ req' = [req EXCEPT ![r] = [req[r] EXCEPT !.pc = "done",
                                                        !.outcome = "mint_failed"]]
            /\ UNCHANGED <<pool, records, mintCalls>>
       ELSE LET q == [req[r] EXCEPT !.coupon_code = MintBase + mintCalls + 1,
                                    !.deducted = deduct_virtual_stock(cfg, req[r].quota).ok]
            IN  /\ mintCalls' = mintCalls + 1
                /\ IF q.claim_mode = "B" /\ q.has_main
                   THEN /\ req' = [req EXCEPT ![r] = [q EXCEPT !.pc = "topup"]]
                        /\ UNCHANGED <<pool, records>>
                   ELSE CommitMinted(r, q)

\* create_redemption_code_via_api returns: None on any failure, else a code
\* the remote ledger has just created; deducted is what the call of
\* deduct_virtual_stock (line 757 or 771) returns
MintReturn(r, ok) ==
    /\ req[r].pc = "minting"
    /\ UNCHANGED <<clock, edits, ret, sessions>>
    /\ IF ~ok
       THEN Reject(r, req[r], "mint_failed")
       ELSE LET q == [req[r] EXCEPT !.coupon_code = MintBase + mintCalls + 1,
                                    !.deducted = deduct_virtual_stock(cfg, req[r].quota).ok]
            IN  /\ mintCalls' = mintCalls + 1
                /\ cfg' = [cfg EXCEPT !.quota_stock = deduct_virtual_stock(cfg, q.quota).stock]
                /\ IF q.claim_mode = "B" /\ q.has_main
                   THEN /\ req' = [req EXCEPT ![r] = [q EXCEPT !.pc = "topup"]]
                        /\ UNCHANGED <<pool, records>>
                   ELSE CommitMinted(r, q)

\* mutant: a failed top-up fails the claim
TopupReturn_FailureFatal(r, ok) ==
    /\ req[r].pc = "topup"
    /\ IF ok
       THEN CommitMinted(r, [req[r] EXCEPT !.topup = "ok", !.auto_redeemed = TRUE])
       ELSE /\ req' = [req EXCEPT ![r] = [req[r] EXCEPT !.pc = "done", !.topup = "failed",
                                                        !.outcome = "mint_failed"]]
            /\ UNCHANGED <<pool, records>>
    /\ UNCHANGED <<clock, cfg, mintCalls, edits, ret, sessions>>

\* topup_user_by_session returns True or False (field topup); line 783
\* sets auto_redeemed when it is True
TopupReturn(r, ok) ==
    /\ req[r].pc = "topup"
    /\ CommitMinted(r, [req[r] EXCEPT !.topup = IF ok THEN "ok" ELSE "failed",
                                      !.auto_redeemed = ok])
    /\ UNCHANGED <<clock, cfg, mintCalls, edits, ret, sessions>>

\* The task running claim_coupon is cancelled while it waits at an await:
\* CancelledError leaves the handler, get_db closes the session and the
\* pending new_coupon is discarded.  What set_config has committed stays.
Cancel(r) ==
    /\ req[r].pc \in {"verifying", "minting", "topup"}
    /\ req' = [req EXCEPT ![r] = [req[r] EXCEPT !.pc = "done", !.outcome = "cancelled"]]
    /\ UNCHANGED <<clock, cfg, pool, records, mintCalls, edits, ret, sessions>>

\* time passes until the instant t
Advance(t) ==
    /\ clock < t
    /\ clock' = t
    /\ UNCHANGED <<cfg, pool, records, req, mintCalls, edits, ret, sessions>>

\* ------------------------------------------------------ admin operations
\* the request bodies of update_config: the keys present and their values
Bodies ==
    {b \in [keys : {K \in SUBSET ConfigKeys : Cardinality(K) = 1},
            cooldown_minutes : CooldownInputs,
            claim_times : ClaimTimesInputs,
            quota_weights : WeightInputs,
            quota_stock : StockInputs,
            claim_mode : ModeInputs,
            probability_mode : ProbabilityInputs] :
        /\ "cooldown_minutes" \notin b.keys => b.cooldown_minutes = 0
        /\ "claim_times" \notin b.keys => b.claim_times = 0
        /\ "quota_weights" \notin b.keys => b.quota_weights = ("100" :> 0)
        /\ "quota_stock" \notin b.keys => b.quota_stock = ("100" :> 1)
        /\ "claim_mode" \notin b.keys => b.claim_mode = "A"
        /\ "probability_mode" \notin b.keys => b.probability_mode = "weight_only"}

update_config(body) ==
    /\ edits < MaxEdits
    /\ edits' = edits + 1
    /\ cfg' = [k \in ConfigKeys |-> IF k \in body.keys THEN body[k] ELSE cfg[k]]
    /\ UNCHANGED <<clock, pool, records, req, mintCalls, ret, sessions>>

\* the codes of a batch that pass the check of line 832, in batch order;
\* NoCode stands for a line that is empty after strip()
RECURSIVE ToAdd(_, _)
ToAdd(coupons, p) ==
    IF coupons = <<>> THEN <<>>
    ELSE LET code == Head(coupons)
             rest == ToAdd(Tail(coupons), p)
         IN  IF code # NoCode /\ code \notin PoolCodes(p)
             THEN <<code>> \o rest ELSE rest

\* add_coupons: the rows are inserted at the commit of line 835, which the
\* unique constraint on coupon_code rejects as a whole when the batch holds
\* one new code twice
add_coupons(coupons, quota) ==
    LET added == ToAdd(coupons, pool)
        first == NextId(pool)
        unique == \A i, j \in DOMAIN added : added[i] = added[j] => i = j
    IN  /\ edits < MaxEdits
        /\ edits' = edits + 1
        /\ pool' = IF unique
                   THEN pool \cup {ManualCoupon(added[i], quota, first + i - 1) : i \in DOMAIN added}
                   ELSE pool
        /\ UNCHANGED <<clock, cfg, records, req, mintCalls, ret, sessions>>

Batches == UNION {[1..n -> ManualCodes \cup {NoCode}] : n \in 0..MaxBatch}

\* the ids a row of coupon_pool can carry, and one that no row carries
CouponIds == 1..(MaxBatch + NumReqs + 1)

\* delete_coupon: 404 when no row has the id, else the row is deleted
delete_coupon(id) ==
    /\ edits < MaxEdits
    /\ edits' = edits + 1
    /\ pool' = {row \in pool : row.id # id}
    /\ UNCHANGED <<clock, cfg, records, req, mintCalls, ret, sessions>>

DeleteTypes == {"selected", "all_available", "all_claimed", "all", "other"}

\* the request bodies of delete_coupons_batch; ids is read for "selected" only
DeleteBodies ==
    [type : {"selected"}, ids : SUBSET CouponIds]
        \cup [type : DeleteTypes \ {"selected"}, ids : {{}}]

\* mutant: the filters of all_available and all_claimed are exchanged
delete_coupons_batch_FiltersSwapped(delete_type, ids) ==
    /\ edits < MaxEdits
    /\ edits' = edits + 1
    /\ pool' = CASE delete_type = "selected" -> {row \in pool : row.id \notin ids}
                  [] delete_type = "all_available" -> {row \in pool : ~row.is_claimed}
                  [] delete_type = "all_claimed" -> {row \in pool : row.is_claimed}
                  [] delete_type = "all" -> {}
                  [] OTHER -> pool
    /\ UNCHANGED <<clock, cfg, records, req, mintCalls, ret, sessions>>

\* mutant: the ClaimRecords of the deleted coupons are deleted with them
delete_coupons_batch_WithRecords(delete_type, ids) ==
    LET kept == CASE delete_type = "selected" -> {row \in pool : row.id \notin ids}
                  [] delete_type = "all_available" -> {row \in pool : row.is_claimed}
                  [] delete_type = "all_claimed" -> {row \in pool : ~row.is_claimed}
                  [] delete_type = "all" -> {}
                  [] OTHER -> pool
    IN  /\ edits < MaxEdits
        /\ edits' = edits + 1
        /\ pool' = kept
        /\ records' = SelectSeq(records,
                                LAMBDA rec : \E row \in kept : row.coupon_code = rec.coupon_code)
        /\ UNCHANGED <<clock, cfg, req, mintCalls, ret, sessions>>

delete_coupons_batch(delete_type, ids) ==
    /\ edits < MaxEdits
    /\ edits' = edits + 1
    /\ pool' = CASE delete_type = "selected" -> {row \in pool : row.id \notin ids}
                  [] delete_type = "all_available" -> {row \in pool : row.is_claimed}
                  [] delete_type = "all_claimed" -> {row \in pool : ~row.is_claimed}
                  [] delete_type = "all" -> {}
                  [] OTHER -> pool
    /\ UNCHANGED <<clock, cfg, records, req, mintCalls, ret, sessions>>

\* ------------------------------------------------------ read-only calls
NoRet ==
    [call |-> "none", user_id |-> NoUser, can_claim |-> FALSE,
     remaining_claims |-> 0, cooldown_seconds |-> 0, cooldown_text |-> "none",
     available_count |-> 0, quota |-> NoQuota,
     coupons |-> <<>>, added |-> 0, status_code |-> 0]

\* mutant: the stock check is skipped for a user who is cooling down
claim_status_CoolingFirst(recs, c, p, user_id, now) ==
    LET st == calculate_user_cooldown_status(recs, c, user_id, now)
        total_stock == get_total_available_stock(c, p)
    IN  [NoRet EXCEPT
            !.call = "get_claim_status",
            !.status_code = 200,
            !.user_id = user_id,
            !.can_claim = IF total_stock <= 0 THEN FALSE ELSE st.can_claim,
            !.cooldown_text =
                IF ~st.can_claim /\ st.cooldown_seconds > 0 THEN "time"
                ELSE IF total_stock <= 0 THEN "exhausted"
                ELSE "none",
            !.cooldown_seconds = st.cooldown_seconds,
            !.available_count = total_stock,
            !.remaining_claims = st.remaining_claims]

\* the response of get_claim_status (lines 656-689) for a logged-in user;
\* cooldown_text is "time" for the hours-minutes-seconds text and
\* "exhausted" for the text of line 672, the one claim_coupon raises at 736
claim_status(recs, c, p, user_id, now) ==
    LET st == calculate_user_cooldown_status(recs, c, user_id, now)
        total_stock == get_total_available_stock(c, p)
    IN  [NoRet EXCEPT
            !.call = "get_claim_status",
            !.status_code = 200,
            !.user_id = user_id,
            !.can_claim = IF total_stock <= 0 THEN FALSE ELSE st.can_claim,
            !.cooldown_text =
                IF total_stock <= 0 THEN "exhausted"
                ELSE IF ~st.can_claim /\ st.cooldown_seconds > 0 THEN "time"
                ELSE "none",
            !.cooldown_seconds = st.cooldown_seconds,
            !.available_count = total_stock,
            !.remaining_claims = st.remaining_claims]

\* get_claim_status from its entry to its await or its end, with the
\* cookies of claim_coupon.  A request whose local cookie names no valid
\* session and that carries a main-site cookie is suspended in
\* verify_user_by_main_session (line 648) and takes a coroutine slot while
\* it waits (the cookies are not read again); without either cookie it is
\* answered 401.
get_claim_status(coupon_session, session) ==
    LET found == get_session(sessions, coupon_session, clock)
    IN  /\ UNCHANGED <<clock, cfg, pool, records, mintCalls, edits, sessions>>
        /\ IF found # {}
           THEN /\ \E row \in found :
                      ret' = claim_status(records, cfg, pool, row.user_id, clock)
                /\ UNCHANGED req
           ELSE IF session
           THEN /\ \E r \in Reqs :
                      /\ req[r].pc = "idle"
                      /\ \A o \in Reqs : o < r => req[o].pc # "idle"
                      /\ req' = [req EXCEPT ![r] =
                                   [IdleReq EXCEPT !.pc = "status_verifying"]]
                /\ UNCHANGED ret
           ELSE /\ ret' = [NoRet EXCEPT !.call = "get_claim_status",
                                        !.status_code = 401]
                /\ UNCHANGED req

\* verify_user_by_main_session returns to get_claim_status (line 648) with
\* user_info: a session is created for the confirmed user (line 650) and
\* the status is computed for them, or the request is answered 401; the
\* coroutine is gone
StatusVerifyReturn(r, user_info) ==
    /\ req[r].pc = "status_verifying"
    /\ req' = [req EXCEPT ![r] = IdleReq]
    /\ IF user_info # NoUser
       THEN /\ sessions.issued + 1 \in Tokens
            /\ sessions' = create_session(sessions, user_info, TRUE, clock)
            /\ ret' = claim_status(records, cfg, pool, user_info, clock)
       ELSE /\ ret' = [NoRet EXCEPT !.call = "get_claim_status",
                                    !.status_code = 401]
            /\ UNCHANGED sessions
    /\ UNCHANGED <<clock, cfg, pool, records, mintCalls, edits>>

\* the user asks for their status with the cookie of their local session
StatusStart(user_id) ==
    \E row \in sessions.rows :
        /\ row.user_id = user_id
        /\ get_claim_status(row.session_token, FALSE)

\* check_auth, taken up where verify_user_by_main_session returns (nothing
\* is read before).  When the main site confirms a user and the local
\* cookie names no valid session of that user, the session of the local
\* cookie is deleted and a new one is created from the main-site cookie.
\* ret keeps the answer: the user reported as logged in, or NoUser.
check_auth(coupon_session, session, user_info) ==
    LET local_session == get_session(sessions, coupon_session, clock)
        same_user == \E row \in local_session : row.user_id = user_info
        logged_in == IF session /\ user_info # NoUser THEN user_info
                     ELSE IF local_session # {}
                     THEN (CHOOSE row \in local_session : TRUE).user_id
                     ELSE NoUser
    IN  /\ session \/ user_info = NoUser
        /\ IF session /\ user_info # NoUser /\ ~same_user
           THEN /\ sessions.issued + 1 \in Tokens
                /\ sessions' = create_session(delete_session(sessions, coupon_session),
                                              user_info, TRUE, clock)
           ELSE UNCHANGED sessions
        /\ ret' = [NoRet EXCEPT !.call = "check_auth", !.user_id = logged_in,
                                !.status_code = 200]
        /\ UNCHANGED <<clock, cfg, pool, records, req, mintCalls, edits>>

\* auth_callback, taken up where verify_user_by_main_session returns: a
\* session is created for the user the main site confirms.  ret keeps the
\* redirect: to /claim with the new cookie, or to /claim?error=auth_failed
\* (user_id NoUser).
auth_callback(session, user_info) ==
    /\ session \/ user_info = NoUser
    /\ IF session /\ user_info # NoUser
       THEN /\ sessions.issued + 1 \in Tokens
            /\ sessions' = create_session(sessions, user_info, TRUE, clock)
       ELSE UNCHANGED sessions
    /\ ret' = [NoRet EXCEPT !.call = "auth_callback", !.user_id = user_info,
                            !.status_code = 302]
    /\ UNCHANGED <<clock, cfg, pool, records, req, mintCalls, edits>>

\* upload_txt: the lines of the file are loaded the way add_coupons loads
\* its list.  ret keeps the request (the lines, the tier) and the response:
\* 200 with the count "added" and the count of unclaimed coupons of the
\* message, or the 500 of the commit the unique constraint rejects.
upload_txt(lines, quota) ==
    LET added == ToAdd(lines, pool)
        first == NextId(pool)
        unique == \A i, j \in DOMAIN added : added[i] = added[j] => i = j
        loaded == pool \cup {ManualCoupon(added[i], quota, first + i - 1) : i \in DOMAIN added}
    IN  /\ edits < MaxEdits
        /\ edits' = edits + 1
        /\ pool' = IF unique THEN loaded ELSE pool
        /\ ret' = [NoRet EXCEPT
                     !.call = "upload_txt",
                     !.coupons = lines,
                     !.quota = quota,
                     !.added = IF unique THEN Len(added) ELSE 0,
                     !.available_count = IF unique THEN Cardinality(Unclaimed(loaded)) ELSE 0,
                     !.status_code = IF unique THEN 200 ELSE 500]
        /\ UNCHANGED <<clock, cfg, records, req, mintCalls, sessions>>

\* one call of draw_random_quota on the stored policy and pool
DrawTier ==
    /\ \E quota \in draw_random_quota(cfg, pool) :
          ret' = [NoRet EXCEPT !.call = "draw_random_quota", !.quota = quota]
    /\ UNCHANGED <<clock, cfg, pool, records, req, mintCalls, edits, sessions>>

\* ------------------------------------------------------ the specification
\* every user is logged in: auth_callback created their session, from the
\* main-site cookie, at instant 0
DefaultSessions ==
    [rows |-> {[session_token |-> u, user_id |-> u,
                main_site_session |-> TRUE,
                expires_at |-> SessionLifetime] : u \in Users},
     issued |-> NumUsers]

\* what init_default_config writes into an empty database, scaled: the
\* cooldown of 480 minutes is MaxCooldown, of the five tiers the lowest and
\* the highest are kept, and the lowest tier has the stock MaxStock
DefaultPolicy ==
    [cooldown_minutes |-> MaxCooldown,
     claim_times |-> 1,
     quota_weights |-> ("1" :> 50 @@ "100" :> 1),
     quota_stock |-> ("1" :> MaxStock @@ "100" :> 1),
     claim_mode |-> "B",
     probability_mode |-> "weight_stock"]

\* the default policy, and the policies an admin has made of it with
\* update_config: tier 1 sold out, tier 100 restocked, either claim mode
InitPolicies ==
    {DefaultPolicy} \cup
    {c \in Policies :
        /\ c.cooldown_minutes = MaxCooldown
        /\ c.claim_times = 1
        /\ c.quota_weights = ("1" :> 50 @@ "100" :> 1)
        /\ c.quota_stock = ("1" :> 0 @@ "100" :> MaxStock)
        /\ c.probability_mode = "weight_stock"}

Instants == 0..MaxTime

Init ==
    /\ clock = 0
    /\ cfg \in InitPolicies
    /\ pool = {}
    /\ records = <<>>
    /\ req = [r \in Reqs |-> IdleReq]
    /\ mintCalls = 0
    /\ edits = 0
    /\ ret = NoRet
    /\ sessions = DefaultSessions

Next ==
    \/ \E r \in Reqs, u \in Users : ClaimStart(r, u)
    \/ \E r \in Reqs, ok \in BOOLEAN : MintReturn(r, ok)
    \/ \E r \in Reqs, ok \in BOOLEAN : TopupReturn(r, ok)
    \/ \E r \in Reqs : Cancel(r)
    \/ \E t \in Instants : Advance(t)
    \/ \E body \in Bodies : update_config(body)
    \/ \E coupons \in Batches, quota \in {1, 100} : add_coupons(coupons, quota)

Spec == Init /\ [][Next]_vars

\* ------------ claims, admin edits, the status call and the deletions, from
\* the states of Init in which the admin has set the stock of tier 1 to 0
InitAll ==
    /\ Init
    /\ get_quota_stock(cfg)["1"] = 0

NextAll ==
    \/ Next
    \/ \E u \in Users : StatusStart(u)
    \/ \E id \in CouponIds : delete_coupon(id)
    \/ \E body \in DeleteBodies : delete_coupons_batch(body.type, body.ids)

SpecAll == InitAll /\ [][NextAll]_vars

\* ---------------------------- claims only: a fixed policy, a preloaded pool
ClaimPolicies ==
    {c \in Policies :
        /\ c.cooldown_minutes \in {1, MaxCooldown}
        /\ c.claim_times = 1
        /\ c.quota_weights = ("1" :> 50 @@ "100" :> 1)
        /\ c.quota_stock \in [{"1", "100"} -> 0..MaxStock]
        /\ c.probability_mode = "weight_stock"}

\* the pools an admin can have loaded: each manual code absent or present
\* as an unclaimed coupon of one tier
RECURSIVE LoadedPools(_)
LoadedPools(n) ==
    IF n = 0 THEN {{}}
    ELSE LET smaller == LoadedPools(n - 1)
         IN  smaller \cup
             {p \cup {ManualCoupon(n, quota, NextId(p))} :
                 p \in smaller, quota \in {1, 100}}

InitClaims ==
    /\ clock = 0
    /\ cfg \in ClaimPolicies
    /\ pool \in LoadedPools(MaxManual)
    /\ records = <<>>
    /\ req = [r \in Reqs |-> IdleReq]
    /\ mintCalls = 0
    /\ edits = 0
    /\ ret = NoRet
    /\ sessions = DefaultSessions

NextClaims ==
    \/ \E r \in Reqs, u \in Users : ClaimStart(r, u)
    \/ \E r \in Reqs, ok \in BOOLEAN : MintReturn(r, ok)
    \/ \E r \in Reqs, ok \in BOOLEAN : TopupReturn(r, ok)
    \/ \E r \in Reqs : Cancel(r)
    \/ \E t \in Instants : Advance(t)

SpecClaims == InitClaims /\ [][NextClaims]_vars

\* ------------------- the evaluator on arbitrary histories, policies, times
EvalInstants == {0, 1, 59, 60, 70, 71, 480}
EvalCooldowns == {0, 1, 60, 480}
EvalClaimTimes == {0, 70}
EvalUsers == {1, 2}

\* a record as claim_coupon writes it, under the cooldown in force then
EvalRecord(u, t, cd) ==
    [user_id |-> u, coupon_code |-> MintBase, quota_dollars |-> 1,
     claim_time |-> t, cooldown_expires_at |-> t + cd, auto_redeemed |-> FALSE]

EvalRecords ==
    {EvalRecord(1, t, cd) : t \in EvalClaimTimes, cd \in {1, 60, 480}}
        \cup {EvalRecord(2, 0, 480)}

Histories == UNION {[1..n -> EvalRecords] : n \in 0..MaxHist}

EvalPolicies ==
    [cooldown_minutes : EvalCooldowns,
     claim_times : 1..MaxClaimTimes,
     quota_weights : {("1" :> 50 @@ "100" :> 1)},
     quota_stock : {("1" :> 0 @@ "100" :> 3)},
     claim_mode : {"B"},
     probability_mode : {"weight_stock"}]

EvalBodies ==
    {b \in [keys : {{"cooldown_minutes"}},
            cooldown_minutes : EvalCooldowns,
            claim_times : {0},
            quota_weights : {("100" :> 0)},
            quota_stock : {("100" :> 1)},
            claim_mode : {"A"},
            probability_mode : {"weight_only"}] : TRUE}

InitEval ==
    /\ clock \in EvalInstants
    /\ cfg \in EvalPolicies
    /\ pool = {}
    /\ records \in Histories
    /\ \A i \in DOMAIN records : records[i].claim_time <= clock
    /\ req = [r \in Reqs |-> IdleReq]
    /\ mintCalls = 0
    /\ edits = 0
    /\ ret = NoRet
    /\ sessions = DefaultSessions

NextEval ==
    \/ \E u \in EvalUsers : StatusStart(u)
    \/ \E t \in EvalInstants : Advance(t)
    \/ \E body \in EvalBodies : update_config(body)

SpecEval == InitEval /\ [][NextEval]_vars

\* ------------------------------ the draw on arbitrary policies and pools
\* each manual code absent, unclaimed or already claimed, of either tier
RECURSIVE AnyPools(_)
AnyPools(n) ==
    IF n = 0 THEN {{}}
    ELSE LET smaller == AnyPools(n - 1)
         IN  smaller \cup
             {p \cup {[ManualCoupon(n, quota, NextId(p)) EXCEPT
                          !.is_claimed = claimed,
                          !.claimed_by_user_id = IF claimed THEN 1 ELSE NoUser,
                          !.claimed_at = IF claimed THEN 0 ELSE NoTime]} :
                 p \in smaller, quota \in {1, 100}, claimed \in BOOLEAN}

DrawPolicies ==
    [cooldown_minutes : {1},
     claim_times : {1},
     quota_weights : WeightInputs,
     quota_stock : StockInputs \cup {("1" :> 0 @@ "100" :> 3)},
     claim_mode : ModeInputs,
     probability_mode : ProbabilityInputs]

InitDraw ==
    /\ clock = 0
    /\ cfg \in DrawPolicies
    /\ pool \in AnyPools(MaxManual)
    /\ records = <<>>
    /\ req = [r \in Reqs |-> IdleReq]
    /\ mintCalls = 0
    /\ edits = 0
    /\ ret = NoRet
    /\ sessions = DefaultSessions

NextDraw == DrawTier

SpecDraw == InitDraw /\ [][NextDraw]_vars

\* ------------- the status call on arbitrary policies, pools and histories
\* weights and probability mode are not read by get_claim_status
StatusPolicies ==
    {c \in Policies :
        /\ c.quota_weights = ("1" :> 50 @@ "100" :> 1)
        /\ c.probability_mode = "weight_stock"}

StatusPools == {p \in AnyPools(MaxManual) : Cardinality(p) <= 1}

\* nobody has claimed yet, or one user claimed at instant 0
StatusHistories ==
    {<<>>} \cup {<<EvalRecord(u, 0, cd)>> : u \in Users, cd \in 1..MaxCooldown}

InitStatus ==
    /\ clock \in Instants
    /\ cfg \in StatusPolicies
    /\ pool \in StatusPools
    /\ records \in StatusHistories
    /\ req = [r \in Reqs |-> IdleReq]
    /\ mintCalls = 0
    /\ edits = 0
    /\ ret = NoRet
    /\ sessions = DefaultSessions

\* the cookies a request comes with and the main site's answer: the local
\* cookie, whether the main-site cookie is present, the user the main site
\* confirms it as
Cookies ==
    {c \in [coupon_session : Tokens \cup {NoToken}, session : BOOLEAN,
            user_info : Users \cup {NoUser}] :
        c.session \/ c.user_info = NoUser}

NextStatus ==
    \/ \E token \in Tokens \cup {NoToken}, session \in BOOLEAN :
          get_claim_status(token, session)
    \/ \E r \in Reqs, user_info \in Users \cup {NoUser} : StatusVerifyReturn(r, user_info)

SpecStatus == InitStatus /\ [][NextStatus]_vars

\* ------------------- the claim handler with its authentication prelude
AuthPolicies ==
    {c \in Policies :
        /\ c.cooldown_minutes = 1
        /\ c.claim_times = 1
        /\ c.quota_weights = ("1" :> 50 @@ "100" :> 1)
        /\ c.quota_stock = ("1" :> 0 @@ "100" :> MaxStock)
        /\ c.claim_mode = "B"
        /\ c.probability_mode = "weight_stock"}

\* user u was issued token u before instant 0; the session is gone (logged
\* out), or it expires at instant 1 or a week from now
AuthExpiries == {1, SessionLifetime}

\* the table create_all leaves: no session, no token issued
NoSessions == [rows |-> {}, issued |-> 0]

AuthTables ==
    {NoSessions} \cup
    {[rows |-> {[session_token |-> u, user_id |-> u,
                 main_site_session |-> TRUE,
                 expires_at |-> e[u]] : u \in present},
      issued |-> NumUsers] :
        present \in SUBSET Users, e \in [Users -> AuthExpiries]}

InitAuth ==
    /\ clock = 0
    /\ cfg \in AuthPolicies
    /\ pool = {}
    /\ records = <<>>
    /\ req = [r \in Reqs |-> IdleReq]
    /\ mintCalls = 0
    /\ edits = 0
    /\ ret = NoRet
    /\ sessions \in AuthTables

NextAuth ==
    \/ \E r \in Reqs, token \in Tokens \cup {NoToken}, session \in BOOLEAN :
          claim_coupon(r, token, session)
    \/ \E r \in Reqs, user_info \in Users \cup {NoUser} : VerifyReturn(r, user_info)
    \/ \E r \in Reqs, ok \in BOOLEAN : MintReturn(r, ok)
    \/ \E r \in Reqs, ok \in BOOLEAN : TopupReturn(r, ok)
    \/ \E r \in Reqs : Cancel(r)
    \/ \E t \in Instants : Advance(t)
    \/ \E token \in Tokens \cup {NoToken} : auth_logout(token)

SpecAuth == InitAuth /\ [][NextAuth]_vars

\* ------------- the session handlers, from the state the program starts in
InitSession ==
    /\ clock = 0
    /\ cfg = DefaultPolicy
    /\ pool = {}
    /\ records = <<>>
    /\ req = [r \in Reqs |-> IdleReq]
    /\ mintCalls = 0
    /\ edits = 0
    /\ ret = NoRet
    /\ sessions = NoSessions

NextSession ==
    \/ \E c \in Cookies : check_auth(c.coupon_session, c.session, c.user_info)
    \/ \E c \in Cookies : auth_callback(c.session, c.user_info)
    \/ \E token \in Tokens \cup {NoToken}, session \in BOOLEAN :
          get_claim_status(token, session)
    \/ \E r \in Reqs, user_info \in Users \cup {NoUser} : StatusVerifyReturn(r, user_info)
    \/ \E token \in Tokens \cup {NoToken} : auth_logout(token)
    \/ \E t \in Instants : Advance(t)

SpecSession == InitSession /\ [][NextSession]_vars

\* ----------- claims of a user one after the other, any number of requests
SerialPolicies ==
    {c \in Policies :
        /\ c.cooldown_minutes \in 1..MaxCooldown
        /\ c.claim_times \in 1..MaxClaimTimes
        /\ c.quota_weights = ("1" :> 50 @@ "100" :> 1)
        /\ c.quota_stock = ("1" :> 0 @@ "100" :> MaxStock)
        /\ c.probability_mode = "weight_stock"}

\* the admin has loaded coupons of tier 100 only
SerialPools == {p \in LoadedPools(MaxManual) : \A row \in p : row.quota_dollars = 100}

InitSerial ==
    /\ clock = 0
    /\ cfg \in SerialPolicies
    /\ pool \in SerialPools
    /\ records = <<>>
    /\ req = [r \in Reqs |-> IdleReq]
    /\ mintCalls = 0
    /\ edits = 0
    /\ ret = NoRet
    /\ sessions = DefaultSessions

\* the user sends a claim request while none of their own is running
SerialClaim(r, user_id) ==
    /\ \A o \in Reqs : InFlight(o) => req[o].user_id # user_id
    /\ ClaimStart(r, user_id)

\* the response was sent and the coroutine is gone
Release(r) ==
    /\ req[r].pc = "done"
    /\ req' = [req EXCEPT ![r] = IdleReq]
    /\ UNCHANGED <<clock, cfg, pool, records, mintCalls, edits, ret, sessions>>

NextSerial ==
    \/ \E r \in Reqs, u \in Users : SerialClaim(r, u)
    \/ \E r \in Reqs, ok \in BOOLEAN : MintReturn(r, ok)
    \/ \E r \in Reqs, ok \in BOOLEAN : TopupReturn(r, ok)
    \/ \E r \in Reqs : Cancel(r)
    \/ \E r \in Reqs : Release(r)
    \/ \E t \in Instants : Advance(t)

SpecSerial == InitSerial /\ [][NextSerial]_vars

\* ------------------------------------- bulk loads into arbitrary pools
InitLoad ==
    /\ clock = 0
    /\ cfg \in InitPolicies
    /\ pool \in AnyPools(MaxManual)
    /\ records = <<>>
    /\ req = [r \in Reqs |-> IdleReq]
    /\ mintCalls = 0
    /\ edits = 0
    /\ ret = NoRet
    /\ sessions = DefaultSessions

NextLoad ==
    \/ \E coupons \in Batches, quota \in {1, 100} : add_coupons(coupons, quota)
    \/ \E lines \in Batches, quota \in {1, 100} : upload_txt(lines, quota)

SpecLoad == InitLoad /\ [][NextLoad]_vars

\* ----------------------------- deletions from pools with claimed coupons
\* the record the claim of a claimed coupon wrote, under the cooldown cd
AwardRecord(row, cd) ==
    [user_id |-> row.claimed_by_user_id,
     coupon_code |-> row.coupon_code,
     quota_dollars |-> row.quota_dollars,
     claim_time |-> row.claimed_at,
     cooldown_expires_at |-> row.claimed_at + cd,
     auto_redeemed |-> FALSE]

\* the claim_records the claims of the claimed coupons of p can have left:
\* one record per claimed coupon, in the order of the claims, which the
\* draws decided (any order that agrees with the claim times)
AwardLog(p, cd) ==
    LET awards == {AwardRecord(row, cd) : row \in {o \in p : o.is_claimed}}
    IN  {log \in [1..Cardinality(awards) -> awards] :
            /\ \A i, j \in DOMAIN log : log[i] = log[j] => i = j
            /\ \A i, j \in DOMAIN log :
                  i < j => log[i].claim_time <= log[j].claim_time}

DeletePolicies ==
    {c \in Policies :
        /\ c.cooldown_minutes \in 1..MaxCooldown
        /\ c.claim_times = MaxClaimTimes
        /\ c.quota_weights = ("1" :> 50 @@ "100" :> 1)
        /\ c.quota_stock = ("1" :> 0 @@ "100" :> MaxStock)
        /\ c.claim_mode = "A"
        /\ c.probability_mode = "weight_stock"}

InitDelete ==
    /\ clock \in Instants
    /\ cfg \in DeletePolicies
    /\ pool \in AnyPools(MaxManual)
    /\ records \in AwardLog(pool, cfg.cooldown_minutes)
    /\ req = [r \in Reqs |-> IdleReq]
    /\ mintCalls = 0
    /\ edits = 0
    /\ ret = NoRet
    /\ sessions = DefaultSessions

NextDelete ==
    \/ \E id \in CouponIds : delete_coupon(id)
    \/ \E body \in DeleteBodies : delete_coupons_batch(body.type, body.ids)

SpecDelete == InitDelete /\ [][NextDelete]_vars

\* ======================================================================
\* Properties
\* ======================================================================
Done(r) == req[r].pc = "done"
Succeeded(r) == Done(r) /\ req[r].outcome = "success"

\* r and q were both running at some moment: one started while the other
\* was waiting on the remote ledger
Overlapped(r, q) == r \in req[q].saw \/ q \in req[r].saw

\* C1: with claimsPerWindow = 1, of two overlapping Claim requests of one
\* user that start within one cooldown of each other, at most one succeeds
\* (the ledger does not receive a ClaimRecord from each).
C1_OverlappingClaimsOneSuccess ==
    \A r, q \in Reqs :
        ( /\ r # q
          /\ get_claim_times(cfg) = 1
          /\ req[r].user_id = req[q].user_id
          /\ Overlapped(r, q)
          /\ req[q].now < req[r].now + get_cooldown_minutes(cfg)
          /\ req[r].now < req[q].now + get_cooldown_minutes(cfg)
          /\ Done(r) /\ Done(q) )
        => ~(Succeeded(r) /\ Succeeded(q))

\* the awards whose code was minted for the tier of stock key k
MintedAwards(k) ==
    {i \in DOMAIN records :
        /\ records[i].coupon_code > MintBase
        /\ records[i].quota_dollars = ParseFloat(k)}

\* C2: no oversell. With no admin edit the stock of a tier starts at some
\* n <= MaxStock and only ever decreases, so the awards minted for the tier
\* plus the stock that is left never exceed MaxStock when awards <= n.
\* It is stated for runs in which every user was awarded at most once.
C2_NoOversell ==
    (\A i, j \in DOMAIN records : records[i].user_id = records[j].user_id => i = j)
    => \A k \in DOMAIN cfg.quota_stock :
          Cardinality(MintedAwards(k)) + cfg.quota_stock[k] <= MaxStock

Tables == <<pool, cfg.quota_stock, records>>

\* C3: a claim whose mint call fails ends in the 500 "generation failed"
\* error, none of its steps has changed the pool, the stock or the claim
\* records, and the user's eligibility is what it was.
C3_MintFailureChangesNothing ==
    [][\A r \in Reqs :
         /\ (req[r].pc = "idle" /\ req'[r].pc = "minting") => Tables' = Tables
         /\ (req[r].pc = "minting" /\ req'[r].pc = "done" /\ mintCalls' = mintCalls)
              => /\ req'[r].outcome \in {"mint_failed", "cancelled"}
                 /\ Tables' = Tables
                 /\ claim_status(records', cfg', pool', req[r].user_id, clock')
                      = claim_status(records, cfg, pool, req[r].user_id, clock)
         /\ (req[r].pc = "minting" /\ req'[r].outcome = "mint_failed")
              => /\ mintCalls' = mintCalls
                 /\ req'[r].pc = "done"
                 /\ claim_error(req'[r].outcome).status_code = 500]_vars

\* a mint failure at one instant, and the same user's next claim, made at
\* that instant, succeeded
C3_Witness ==
    \E r, q \in Reqs :
        /\ r < q
        /\ Done(r) /\ req[r].outcome = "mint_failed"
        /\ Succeeded(q)
        /\ req[q].user_id = req[r].user_id
        /\ req[q].now = req[r].now
        /\ r \notin req[q].saw

\* C4: no double award. No two ClaimRecords carry the same code, and every
\* claimed pool entry belongs to the one user whose ClaimRecord carries its
\* code.
C4_NoDoubleAward ==
    /\ \A i, j \in DOMAIN records :
          records[i].coupon_code = records[j].coupon_code => i = j
    /\ \A row \in pool, i \in DOMAIN records :
          (row.is_claimed /\ records[i].coupon_code = row.coupon_code)
            => row.claimed_by_user_id = records[i].user_id
    /\ \A row \in pool :
          row.is_claimed =>
            Cardinality({i \in DOMAIN records :
                            records[i].coupon_code = row.coupon_code}) = 1

\* two users claimed in local-first mode while one of them was waiting on
\* the mint: one award came from the local inventory, and both succeeded
C4_Witness ==
    \E r, q \in Reqs :
        /\ r # q
        /\ Succeeded(r) /\ Succeeded(q)
        /\ req[r].user_id # req[q].user_id
        /\ req[r].claim_mode = "A" /\ req[q].claim_mode = "A"
        /\ Overlapped(r, q)
        /\ req[q].coupon_code < MintBase
        /\ req[r].coupon_code > MintBase

\* the tier of value quota can be fulfilled: some spelling of its key has
\* virtual stock, or (local-first mode) an unclaimed local coupon exists
TierHasStock(c, p, quota) ==
    \/ \E k \in DOMAIN c.quota_stock :
          ParseFloat(k) = quota /\ c.quota_stock[k] > 0
    \/ /\ c.claim_mode = "A"
       /\ \E row \in p : ~row.is_claimed /\ row.quota_dollars = quota

ScenarioPolicy(c) ==
    /\ c.quota_weights = ("1" :> 50 @@ "100" :> 1)
    /\ c.quota_stock = ("1" :> 0 @@ "100" :> 3)

\* C5: a tier returned by draw_random_quota has positive effective stock;
\* with weights {1: 50, 100: 1} and stock {1: 0, 100: 3}, and no unclaimed
\* local coupon of tier 1, the draw returns 100.
C5_DrawOnlyStockedTiers ==
    ret.call = "draw_random_quota" =>
        /\ ret.quota \notin {NoQuota, DrawRaises}
              => TierHasStock(cfg, pool, ret.quota)
        /\ (ScenarioPolicy(cfg) /\ ~TierHasStock(cfg, pool, 1))
              => ret.quota = 100

\* the scenario: tier 1 has the larger weight and no stock, and the draw
\* was made
C5_Witness ==
    /\ ret.call = "draw_random_quota"
    /\ ScenarioPolicy(cfg)
    /\ get_probability_mode(cfg) = "weight_only"
    /\ ~TierHasStock(cfg, pool, 1)
    /\ ret.quota = 100

\* the response of get_claim_status in the current state
StatusNow(u) == claim_status(records, cfg, pool, u, clock)

\* the user's records that have not expired at now: neither under the
\* current cooldown nor under the expiry stored on the record
ActiveInHistory(user_id) ==
    {i \in DOMAIN records :
        /\ records[i].user_id = user_id
        /\ clock < records[i].claim_time + cfg.cooldown_minutes
        /\ clock < records[i].cooldown_expires_at}

\* C6: remaining = max(0, claimsPerWindow - activeCount) >= 0, and canClaim
\* holds exactly when remaining > 0.
C6_RemainingClaims ==
    \A u \in EvalUsers :
        LET st == calculate_user_cooldown_status(records, cfg, u, clock)
            n == Cardinality(ActiveInHistory(u))
        IN  /\ st.remaining_claims >= 0
            /\ st.remaining_claims =
                 (IF cfg.claim_times - n > 0 THEN cfg.claim_times - n ELSE 0)
            /\ st.can_claim <=> st.remaining_claims > 0

\* a user with more active records than claimsPerWindow asked for the status
C6_Witness ==
    /\ ret.call = "get_claim_status"
    /\ ret = claim_status(records, cfg, pool, ret.user_id, clock)
    /\ Cardinality(ActiveInHistory(ret.user_id)) > cfg.claim_times
    /\ ret.remaining_claims = 0
    /\ ~ret.can_claim

\* C7: a record the evaluator considers is active iff now is before both
\* claimedAt + cooldownMinutes and the stored cooldownExpiresAt, and its
\* actual expiry is the smaller of the two.
C7_ActualExpiryIsMinimum ==
    \A u \in EvalUsers :
        \A i \in recent_claims(records, cfg, u, clock) :
            LET rec == records[i]
                a == rec.claim_time + cfg.cooldown_minutes
                b == rec.cooldown_expires_at
            IN  /\ actual_expires(rec, cfg) \in {a, b}
                /\ actual_expires(rec, cfg) <= a
                /\ actual_expires(rec, cfg) <= b
                /\ (i \in active_claims(records, cfg, u, clock))
                     <=> (clock < a /\ clock < b)

\* a considered record that the stored expiry alone makes inactive, and one
\* that the current cooldown alone makes inactive
C7_Witness ==
    \E u \in EvalUsers :
        \E i, j \in recent_claims(records, cfg, u, clock) :
            /\ ret = StatusNow(u)
            /\ records[i].cooldown_expires_at <= clock
            /\ clock < records[i].claim_time + cfg.cooldown_minutes
            /\ records[j].claim_time + cfg.cooldown_minutes <= clock
            /\ clock < records[j].cooldown_expires_at

\* C8: on an unchanged history at an unchanged time, a policy edit that
\* makes cooldownMinutes smaller never turns canClaim from true to false
\* and never decreases remaining.
C8_ShorteningNeverBlocks ==
    [][( /\ cfg'.cooldown_minutes < cfg.cooldown_minutes
         /\ records' = records
         /\ clock' = clock )
       => \A u \in EvalUsers :
             LET before == StatusNow(u)
                 after == claim_status(records', cfg', pool', u, clock')
             IN  /\ before.can_claim => after.can_claim
                 /\ after.remaining_claims >= before.remaining_claims]_vars

\* the cooldown was shortened, and a user whose record is still locked by
\* its stored expiry can claim because the record has expired under the
\* new cooldown
C8_Witness ==
    /\ edits = 1
    /\ \E i \in DOMAIN records :
          /\ clock < records[i].cooldown_expires_at
          /\ records[i].claim_time + cfg.cooldown_minutes <= clock
          /\ records[i].claim_time + cfg.cooldown_minutes < records[i].cooldown_expires_at
          /\ cfg.claim_times = 1
          /\ StatusNow(records[i].user_id).can_claim

\* C9: a record whose stored cooldownExpiresAt is E is not counted as
\* active at any now >= E, whatever cooldownMinutes is now.
C9_LengtheningNeverPenalizes ==
    \A i \in DOMAIN records :
        clock >= records[i].cooldown_expires_at
          => i \notin active_claims(records, cfg, records[i].user_id, clock)

\* the cooldown was edited to a longer one than the record was written
\* under; the record is past its stored expiry, though not past
\* claimedAt + the new cooldown, and its user can claim
C9_Witness ==
    /\ edits = 1
    /\ \E i \in DOMAIN records :
          /\ records[i].cooldown_expires_at < records[i].claim_time + cfg.cooldown_minutes
          /\ records[i].cooldown_expires_at <= clock
          /\ clock < records[i].claim_time + cfg.cooldown_minutes
          /\ cfg.claim_times = 1
          /\ \A j \in DOMAIN records : records[j].user_id = records[i].user_id => j = i
          /\ StatusNow(records[i].user_id).can_claim

ScenarioHistory ==
    /\ Len(records) = 1
    /\ records[1].user_id = 1
    /\ records[1].claim_time = 0
    /\ records[1].cooldown_expires_at = 480

\* C10: once cooldownMinutes is c, every record with claimedAt + c <= now
\* is inactive at the next evaluation; a user who claimed at T0 under 480,
\* with the cooldown since set to 60, can claim at T0 + 71 minutes.
C10_ShorteningTakesEffect ==
    /\ \A i \in DOMAIN records :
          records[i].claim_time + cfg.cooldown_minutes <= clock
            => i \notin active_claims(records, cfg, records[i].user_id, clock)
    /\ (ScenarioHistory /\ cfg.cooldown_minutes = 60 /\ clock = 71)
          => /\ StatusNow(1).can_claim
             /\ StatusNow(1).remaining_claims = cfg.claim_times

\* the scenario after the admin's edit: claimed at 0 under 480, cooldown
\* now 60, asked at 71, answered canClaim
C10_Witness ==
    /\ ScenarioHistory
    /\ edits = 1
    /\ cfg.cooldown_minutes = 60
    /\ cfg.claim_times = 1
    /\ clock = 71
    /\ ret = StatusNow(1)
    /\ ret.can_claim

\* some tier has virtual stock, or (local-first mode) the pool holds an
\* unclaimed coupon
HasAnyStock(c, p) ==
    \/ \E k \in DOMAIN c.quota_stock : c.quota_stock[k] > 0
    \/ c.claim_mode = "A" /\ \E row \in p : ~row.is_claimed

HasNoRecords(u) == \A i \in DOMAIN records : records[i].user_id # u

\* C11: the status returned for a user who has no ClaimRecord says
\* can_claim = true whenever the total available stock is positive, under
\* every policy, and reports all claimsPerWindow claims as remaining.
C11_NoHistoryCanClaim ==
    (ret.call = "get_claim_status" /\ ret.status_code = 200
        /\ HasNoRecords(ret.user_id))
      => /\ HasAnyStock(cfg, pool) => ret.can_claim
         /\ ret.remaining_claims = Max2(1, cfg.claim_times)

\* another user is inside the cooldown and cannot claim; the user without
\* records asked for the status and can
C11_Witness ==
    /\ ret.call = "get_claim_status"
    /\ ret.status_code = 200
    /\ HasNoRecords(ret.user_id)
    /\ HasAnyStock(cfg, pool)
    /\ ret.can_claim
    /\ \E i \in DOMAIN records :
          /\ clock < records[i].cooldown_expires_at
          /\ clock < records[i].claim_time + cfg.cooldown_minutes
          /\ ~StatusNow(records[i].user_id).can_claim

\* no unclaimed entry of any tier, and every tier's virtual stock is zero
NoStockAtAll ==
    /\ \A row \in pool : row.is_claimed
    /\ \A k \in DOMAIN cfg.quota_stock : cfg.quota_stock[k] = 0

\* C12: when the pool has no unclaimed entry and every virtual stock is
\* zero, the claim of an eligible user ends at once in the 400 "all codes
\* claimed" error: the request never reaches the mint call, no code is
\* minted, and pool, stock, records and policy are unchanged.
C12_ExhaustedWithoutMint ==
    [][\A r \in Reqs :
         ( /\ req[r].pc = "idle" /\ req'[r].pc # "idle"
           /\ NoStockAtAll
           /\ calculate_user_cooldown_status(records, cfg, req'[r].user_id, clock).can_claim )
         => /\ req'[r].pc = "done"
            /\ req'[r].outcome = "exhausted"
            /\ req'[r].coupon_code = NoCode
            /\ mintCalls' = mintCalls
            /\ Tables' = Tables
            /\ cfg' = cfg]_vars

\* local-first mode: the one local coupon went to an earlier claim, and the
\* claim of another user, who was eligible, ended in the exhausted error
C12_Witness ==
    \E r \in Reqs :
        /\ Done(r) /\ req[r].outcome = "exhausted"
        /\ NoStockAtAll
        /\ cfg.claim_mode = "A"
        /\ \E row \in pool : row.is_claimed /\ row.claimed_by_user_id # req[r].user_id
        /\ HasNoRecords(req[r].user_id)
        /\ mintCalls = 0

\* the user has fewer active records than claimsPerWindow
Eligible(u) == Cardinality(ActiveInHistory(u)) < Max2(1, cfg.claim_times)

\* C13: with no stock left the status says can_claim = false and carries
\* the "all codes claimed" text whatever the user's cooldown state; that
\* text is reported only then, the time text only for a cooling user when
\* stock is left; a claim is refused with the cooling error exactly when the
\* user is not eligible and with the exhausted error exactly when the user
\* is eligible and no stock is left; and the two errors differ in their
\* detail text.
C13_ExhaustedDistinctFromCooling ==
    /\ [](\A u \in Users :
            LET st == StatusNow(u)
            IN  /\ ~HasAnyStock(cfg, pool)
                     => ~st.can_claim /\ st.cooldown_text = "exhausted"
                /\ st.cooldown_text = "exhausted" => ~HasAnyStock(cfg, pool)
                /\ st.cooldown_text = "time"
                     => ~Eligible(u) /\ HasAnyStock(cfg, pool) /\ ~st.can_claim)
    /\ [][\A r \in Reqs :
            (req[r].pc = "idle" /\ req'[r].pc # "idle")
            => LET u == req'[r].user_id
               IN  /\ req'[r].outcome = "cooling" <=> ~Eligible(u)
                   /\ req'[r].outcome = "exhausted"
                        <=> (Eligible(u) /\ ~HasAnyStock(cfg, pool))]_vars
    /\ [](claim_error("exhausted").detail # claim_error("cooling").detail)

\* the stock is used up; the status of the user who is cooling down was
\* asked and says "all codes claimed", and the claim of a user who never
\* claimed was refused with the exhausted error
C13_Witness ==
    \E u \in Users, r \in Reqs :
        /\ ret.call = "get_claim_status"
        /\ ret = StatusNow(u)
        /\ ~Eligible(u)
        /\ ~HasAnyStock(cfg, pool)
        /\ ret.cooldown_text = "exhausted"
        /\ ~ret.can_claim
        /\ Done(r) /\ req[r].outcome = "exhausted"
        /\ HasNoRecords(req[r].user_id)

Failed(r) == Done(r) /\ req[r].outcome # "success"

\* the award of request r is in the ledger: a ClaimRecord and a claimed
\* PoolEntry carry its code
Persisted(r) ==
    /\ \E i \in DOMAIN records : records[i].coupon_code = req[r].coupon_code
    /\ \E row \in pool : row.is_claimed /\ row.coupon_code = req[r].coupon_code

\* C14: a claim that has ended in a failure has left nothing behind: it
\* has not decremented the virtual stock, and no ClaimRecord and no
\* PoolEntry carries a code it obtained.
C14_FailureRollsBack ==
    \A r \in Reqs :
        Failed(r) =>
            /\ ~req[r].deducted
            /\ \A i \in DOMAIN records :
                  req[r].coupon_code # NoCode => records[i].coupon_code # req[r].coupon_code
            /\ \A row \in pool :
                  req[r].coupon_code # NoCode => row.coupon_code # req[r].coupon_code

\* C15: once the mint has returned a code to a claim, the award is
\* persisted: when the request is over, whether it returned or was
\* cancelled, a ClaimRecord and a claimed PoolEntry carry the minted code.
C15_MintedAwardPersisted ==
    \A r \in Reqs :
        (Done(r) /\ req[r].coupon_code > MintBase) => Persisted(r)

RowsOf(code) == {row \in pool : row.coupon_code = code}
RecordsOf(code) == {i \in DOMAIN records : records[i].coupon_code = code}
ClaimedRows(p) == {row \in p : row.is_claimed}

\* C16: as long as no coupon is deleted, every ClaimRecord has exactly one
\* PoolEntry with its code, claimed by the record's user at the record's
\* time with the record's tier value; every claimed PoolEntry has exactly
\* one ClaimRecord; there is one ClaimRecord per successful claim; and a
\* step appends a ClaimRecord exactly when it adds one claimed PoolEntry
\* (the two are written by one commit).
C16_OneRecordPerAward ==
    /\ [](\A i \in DOMAIN records :
            /\ Cardinality(RowsOf(records[i].coupon_code)) = 1
            /\ \A row \in RowsOf(records[i].coupon_code) :
                  /\ row.is_claimed
                  /\ row.claimed_by_user_id = records[i].user_id
                  /\ row.claimed_at = records[i].claim_time
                  /\ row.quota_dollars = records[i].quota_dollars)
    /\ [](\A row \in pool :
            row.is_claimed => Cardinality(RecordsOf(row.coupon_code)) = 1)
    /\ [](Cardinality({r \in Reqs : Succeeded(r)}) = Len(records))
    /\ [][( Len(records') \in {Len(records), Len(records) + 1} )
           /\ ( Len(records') = Len(records) + 1
                  <=> Cardinality(ClaimedRows(pool')) = Cardinality(ClaimedRows(pool)) + 1 )
           /\ ( Len(records') = Len(records)
                  <=> ClaimedRows(pool') = ClaimedRows(pool) )]_vars

\* two awards: one took a coupon the admin had loaded, one was minted
C16_Witness ==
    /\ Len(records) = 2
    /\ records[1].user_id # records[2].user_id
    /\ \E i, j \in DOMAIN records :
          /\ records[i].coupon_code < MintBase
          /\ records[j].coupon_code > MintBase
          /\ \E row \in RowsOf(records[i].coupon_code) : row.source = "manual"
          /\ \E row \in RowsOf(records[j].coupon_code) : row.source = "api"

\* C17: an unclaimed PoolEntry has no claimant and no claim time, and no
\* claim, bulk load or config update removes a claimed PoolEntry, turns it
\* back to unclaimed or changes any of its fields.
C17_ClaimedIsFinal ==
    /\ [](\A row \in pool :
            ~row.is_claimed
              => row.claimed_by_user_id = NoUser /\ row.claimed_at = NoTime)
    /\ [][\A row \in pool : row.is_claimed => row \in pool']_vars

\* after a bulk load one loaded coupon has been claimed, another is still
\* unclaimed, and a later claim has added a minted entry
C17_Witness ==
    /\ edits = 1
    /\ \E a, b, c \in pool :
          /\ a.is_claimed /\ a.source = "manual"
          /\ ~b.is_claimed /\ b.source = "manual"
          /\ c.is_claimed /\ c.source = "api"
          /\ a.id < c.id

\* C18: the ClaimRecord log is append-only. Every step of a claim, a
\* policy update, a pool load or a pool deletion leaves the existing
\* records as they are; the log grows by one record at a time, and only in
\* the step in which a claim becomes successful.
C18_RecordsAppendOnly ==
    [][\/ records' = records
       \/ /\ Len(records') = Len(records) + 1
          /\ SubSeq(records', 1, Len(records)) = records
          /\ \E r \in Reqs :
                /\ req[r].pc # "done"
                /\ req'[r].pc = "done" /\ req'[r].outcome = "success"
                /\ records'[Len(records')].coupon_code = req'[r].coupon_code
                /\ records'[Len(records')].user_id = req'[r].user_id]_vars

\* the admin deleted the coupon of an award: its ClaimRecord is still there
C18_Witness ==
    /\ edits = 1
    /\ \E i \in DOMAIN records : RowsOf(records[i].coupon_code) = {}

\* the policy fields and the decisions request r carries
Snapshot(q) == <<q.user_id, q.now, q.cooldown_minutes, q.claim_mode, q.quota>>

\* C19: one claim decides under one policy. In the step in which the
\* claim starts, the cooldown it keeps, the eligibility verdict, the stock
\* verdict, the allocation mode and the drawn tier all follow from the
\* policy stored at that moment; the later steps of the claim keep these
\* values whatever update_config has stored meanwhile, stamp the record's
\* expiry with the kept cooldown and take the auto-redeem branch by the
\* kept mode.
C19_SinglePolicySnapshot ==
    [][\A r \in Reqs :
         /\ (req[r].pc = "idle" /\ req'[r].pc # "idle")
              => LET q == req'[r]
                     st == calculate_user_cooldown_status(records, cfg, q.user_id, clock)
                 IN  /\ q.cooldown_minutes = cfg.cooldown_minutes
                     /\ q.now = clock
                     /\ q.outcome = "cooling" <=> ~st.can_claim
                     /\ q.outcome = "exhausted"
                          <=> (st.can_claim /\ ~HasAnyStock(cfg, pool))
                     /\ q.quota # NoQuota
                          => /\ q.quota \in draw_random_quota(cfg, pool)
                             /\ q.claim_mode = get_claim_mode(cfg)
         /\ InFlight(r)
              => /\ Snapshot(req'[r]) = Snapshot(req[r])
                 /\ req'[r].pc = "topup" => (req[r].claim_mode = "B" /\ req[r].has_main)
                 /\ (req'[r].pc = "done" /\ req'[r].outcome = "success")
                      => LET rec == records'[Len(records')]
                         IN  /\ Len(records') = Len(records) + 1
                             /\ rec.claim_time = req[r].now
                             /\ rec.cooldown_expires_at
                                  = req[r].now + req[r].cooldown_minutes
                             /\ rec.quota_dollars = req[r].quota]_vars

\* update_config stored another cooldown while a claim was waiting on the
\* mint; the mint has returned and the claim, now waiting on the
\* auto-redeem call, still carries the cooldown it started under
C19_Witness ==
    \E r \in Reqs :
        /\ req[r].pc = "topup"
        /\ edits = 1
        /\ req[r].cooldown_minutes # cfg.cooldown_minutes
        /\ req[r].coupon_code > MintBase

\* C20: the stored policy is valid after every update_config:
\* cooldownMinutes >= 1, claimsPerWindow >= 1, every weight >= 0 and every
\* stock >= 0.
C20_StoredPolicyValid ==
    /\ cfg.cooldown_minutes >= 1
    /\ cfg.claim_times >= 1
    /\ \A k \in DOMAIN cfg.quota_weights : cfg.quota_weights[k] >= 0
    /\ \A k \in DOMAIN cfg.quota_stock : cfg.quota_stock[k] >= 0

\* the ClaimRecords written for request r
RecordsFor(r) == RecordsOf(req[r].coupon_code)

\* C21: auto-redemption is best-effort. A claim whose mint succeeded and
\* which was not cancelled ends in success whether the top-up call
\* returned true, returned false or was not made; the caller gets the
\* minted code, the ClaimRecord is persisted with the request's
\* auto_redeemed, and auto_redeemed is true exactly when the top-up call
\* was made and returned true. The call is made only in mint-only mode for
\* a session that carries a main-site session.
C21_AutoRedeemBestEffort ==
    /\ [](\A r \in Reqs :
            /\ req[r].auto_redeemed <=> req[r].topup = "ok"
            /\ req[r].topup # "none" => (req[r].claim_mode = "B" /\ req[r].has_main)
            /\ (Done(r) /\ req[r].coupon_code > MintBase /\ req[r].outcome # "cancelled")
                 => /\ Succeeded(r)
                    /\ Persisted(r)
                    /\ \A i \in RecordsFor(r) :
                          records[i].auto_redeemed = req[r].auto_redeemed)
    /\ [][\A r \in Reqs :
            (req[r].pc = "topup" /\ req'[r].pc = "done" /\ req'[r].outcome # "cancelled")
            => /\ req'[r].outcome = "success"
               /\ req'[r].coupon_code = req[r].coupon_code
               /\ req'[r].topup \in {"ok", "failed"}]_vars

\* two successful awards of minted codes in mint-only mode: the top-up
\* failed for one, whose record says auto_redeemed = false, and succeeded
\* for the other
C21_Witness ==
    \E r, q \in Reqs :
        /\ Succeeded(r) /\ req[r].topup = "failed" /\ ~req[r].auto_redeemed
        /\ Persisted(r)
        /\ \A i \in RecordsFor(r) : ~records[i].auto_redeemed
        /\ Succeeded(q) /\ req[q].topup = "ok" /\ req[q].coupon_code > MintBase
        /\ req[q].auto_redeemed
        /\ req[q].claim_mode = "B"

\* the virtual stock of the tier of value quota, under the key spelling
\* the code uses for it
VirtualStock(c, quota) ==
    StockGet(c.quota_stock, get_stock_key(c.quota_stock, quota))

\* C22: a claim whose stock decrement found the drawn tier's stock at zero
\* (deduct_virtual_stock returned false) does not end in success and
\* persists no award.
C22_StockRanOutFailsClaim ==
    \A r \in Reqs :
        (Done(r) /\ req[r].coupon_code > MintBase /\ ~req[r].deducted)
          => ~Succeeded(r) /\ ~Persisted(r)

\* C23: from a policy whose stocks are all >= 0 no interleaving of claims
\* makes a stock negative; deduct_virtual_stock on a tier whose stock is 0
\* or whose key is absent returns false and returns the map unchanged, and
\* on a tier with stock n > 0 it returns true and a map with n - 1.
C23_StockNeverNegative ==
    /\ \A k \in DOMAIN cfg.quota_stock : cfg.quota_stock[k] >= 0
    /\ \A qs \in StockInputs, quota \in {1, 100} :
          LET c == [cfg EXCEPT !.quota_stock = qs]
              d == deduct_virtual_stock(c, quota)
          IN  /\ VirtualStock(c, quota) = 0 => (~d.ok /\ d.stock = qs)
              /\ VirtualStock(c, quota) > 0
                   => /\ d.ok
                      /\ VirtualStock([c EXCEPT !.quota_stock = d.stock], quota)
                           = VirtualStock(c, quota) - 1
    /\ \A r \in Reqs :
          (req[r].pc \in {"topup", "done"} /\ req[r].coupon_code > MintBase /\ ~req[r].deducted)
            => VirtualStock(cfg, req[r].quota) = 0

\* a claim reached its decrement when another claim had taken the last
\* unit of the tier: the call returned false and the stock is still 0
C23_Witness ==
    \E r, q \in Reqs :
        /\ r # q
        /\ req[r].coupon_code > MintBase /\ req[r].deducted
        /\ req[q].coupon_code > MintBase /\ ~req[q].deducted
        /\ req[q].quota = req[r].quota
        /\ VirtualStock(cfg, req[q].quota) = 0

\* the number of unclaimed local PoolEntries of the tier
LocalCount(p, quota) ==
    Cardinality({row \in p : ~row.is_claimed /\ row.quota_dollars = quota})

\* the effective stock of a tier as the allocation mode defines it
EffectiveStockOf(c, p, quota) ==
    IF c.claim_mode = "A"
    THEN (IF LocalCount(p, quota) >= VirtualStock(c, quota)
          THEN LocalCount(p, quota) ELSE VirtualStock(c, quota))
    ELSE VirtualStock(c, quota)

\* C24: for every weighted tier the draw computes the effective stock as
\* max(unclaimed local entries, virtual stock) in local-first mode and as
\* the virtual stock alone in mint-only mode; a drawn tier has positive
\* effective stock, so in mint-only mode a tier with unclaimed local
\* entries and zero virtual stock is never drawn.
C24_EffectiveStockByMode ==
    /\ \A k \in DOMAIN cfg.quota_weights :
          /\ effective_stock(cfg, pool, k) = EffectiveStockOf(cfg, pool, ParseFloat(k))
          /\ k \in available(cfg, pool) <=> EffectiveStockOf(cfg, pool, ParseFloat(k)) > 0
    /\ (ret.call = "draw_random_quota" /\ ret.quota \notin {NoQuota, DrawRaises})
          => /\ EffectiveStockOf(cfg, pool, ret.quota) > 0
             /\ cfg.claim_mode = "B" => VirtualStock(cfg, ret.quota) > 0

\* mint-only mode: tier 1 has unclaimed local coupons and no virtual
\* stock, tier 100 has virtual stock, and the draw returned 100
C24_Witness ==
    /\ ret.call = "draw_random_quota"
    /\ cfg.claim_mode = "B"
    /\ cfg.probability_mode = "weight_only"
    /\ cfg.quota_weights = ("1" :> 50 @@ "100" :> 1)
    /\ LocalCount(pool, 1) = MaxManual
    /\ VirtualStock(cfg, 1) = 0
    /\ VirtualStock(cfg, 100) > 0
    /\ ret.quota = 100

\* C25: in local-first mode a claim that drew tier t and finds an
\* unclaimed local entry of tier t marks one such entry claimed in place,
\* succeeds at once and makes no mint call; when there is none it goes to
\* the mint. In mint-only mode every claim that drew a tier goes to the
\* mint. A claim that succeeds with a minted code inserts one new entry,
\* already claimed, and leaves the unclaimed entries as they are. Codes are
\* minted only for claims waiting on the mint.
C25_LocalFirstMintOnly ==
    [][\A r \in Reqs :
         /\ (req[r].pc = "idle" /\ req'[r].pc # "idle" /\ req'[r].quota # NoQuota)
              => LET q == req'[r]
                 IN  IF cfg.claim_mode = "A" /\ LocalCount(pool, q.quota) > 0
                     THEN /\ q.pc = "done" /\ q.outcome = "success"
                          /\ mintCalls' = mintCalls
                          /\ \E row \in pool :
                                /\ ~row.is_claimed
                                /\ row.quota_dollars = q.quota
                                /\ row.coupon_code = q.coupon_code
                                /\ pool' = (pool \ {row}) \cup
                                      {[row EXCEPT !.is_claimed = TRUE,
                                                   !.claimed_by_user_id = q.user_id,
                                                   !.claimed_at = clock]}
                     ELSE /\ q.pc = "minting"
                          /\ pool' = pool
         /\ (InFlight(r) /\ req'[r].pc = "done" /\ req'[r].outcome = "success")
              => /\ req'[r].coupon_code > MintBase
                 /\ \E row \in pool' :
                       /\ row \notin pool
                       /\ pool' = pool \cup {row}
                       /\ row.is_claimed
                       /\ row.source = "api"
                       /\ row.coupon_code = req'[r].coupon_code
                       /\ \A old \in pool : old.coupon_code # row.coupon_code
                 /\ Unclaimed(pool') = Unclaimed(pool)
         /\ (req'[r].coupon_code > MintBase /\ req[r].coupon_code = NoCode)
              => (req[r].pc = "minting" /\ mintCalls' = mintCalls + 1)]_vars

\* local-first mode: the first claim of a tier took the loaded coupon
\* without a mint call, the next claim of the same tier found none and was
\* served by the one mint call made
C25_Witness ==
    \E r, q \in Reqs :
        /\ r < q
        /\ Succeeded(r) /\ Succeeded(q)
        /\ req[r].claim_mode = "A" /\ req[q].claim_mode = "A"
        /\ req[r].quota = req[q].quota
        /\ req[r].coupon_code \in ManualCodes
        /\ req[q].coupon_code > MintBase
        /\ r \notin req[q].saw
        /\ mintCalls = 1

\* C26: a successful claim has decremented the virtual stock of its tier
\* exactly when its code was minted; a step changes the stock map only as
\* the decrement by one of the tier of a claim whose mint has just
\* returned, and leaves every other tier's stock as it was.
C26_DecrementIffMint ==
    /\ [](\A r \in Reqs :
            Succeeded(r) => (req[r].deducted <=> req[r].coupon_code > MintBase))
    /\ [][cfg'.quota_stock # cfg.quota_stock
            => \E r \in Reqs :
                 /\ req[r].pc = "minting" /\ req'[r].coupon_code > MintBase
                 /\ req'[r].deducted
                 /\ VirtualStock(cfg', req[r].quota) = VirtualStock(cfg, req[r].quota) - 1
                 /\ DOMAIN cfg'.quota_stock = DOMAIN cfg.quota_stock
                 /\ \A k \in DOMAIN cfg.quota_stock :
                       k # get_stock_key(cfg.quota_stock, req[r].quota)
                         => cfg'.quota_stock[k] = cfg.quota_stock[k]]_vars

\* the actual expiry of a record: the earlier of claimedAt + the current
\* cooldown and the expiry stored on the record
ExpiryOf(i) ==
    IF records[i].claim_time + cfg.cooldown_minutes <= records[i].cooldown_expires_at
    THEN records[i].claim_time + cfg.cooldown_minutes
    ELSE records[i].cooldown_expires_at

\* C27: for a user who is blocked by the cooldown, the reported waiting
\* time runs to the earliest actual expiry among the user's active
\* records: it is the time to an active record's expiry, and no active
\* record expires sooner.
C27_WaitUntilEarliestExpiry ==
    \A u \in EvalUsers :
        LET st == calculate_user_cooldown_status(records, cfg, u, clock)
        IN  ~st.can_claim
              => /\ \E i \in ActiveInHistory(u) :
                       st.cooldown_seconds = (ExpiryOf(i) - clock) * 60
                 /\ \A i \in ActiveInHistory(u) :
                       st.cooldown_seconds <= (ExpiryOf(i) - clock) * 60
                 /\ StatusNow(u).cooldown_seconds = st.cooldown_seconds

\* claimsPerWindow = 2 and the user's two active records expire at
\* different times: the status reports the time to the earlier one
C27_Witness ==
    \E u \in EvalUsers :
        /\ ret = StatusNow(u)
        /\ ret.call = "get_claim_status"
        /\ ~ret.can_claim
        /\ cfg.claim_times = 2
        /\ \E i, j \in ActiveInHistory(u) :
              /\ ExpiryOf(i) < ExpiryOf(j)
              /\ ret.cooldown_seconds = (ExpiryOf(i) - clock) * 60

\* the records the lookback query leaves out
OutsideLookback(u) ==
    {i \in DOMAIN records :
        /\ records[i].user_id = u
        /\ records[i].claim_time < clock - 2 * cfg.cooldown_minutes}

\* C28: a record outside the lookback has its actual expiry at or before
\* now, so the records the evaluator counts as active over the lookback
\* are the records that are active in the user's whole history.
C28_LookbackKeepsActive ==
    \A u \in EvalUsers :
        /\ \A i \in OutsideLookback(u) : ExpiryOf(i) <= clock
        /\ active_claims(records, cfg, u, clock) = ActiveInHistory(u)
        /\ recent_claims(records, cfg, u, clock)
             = {i \in DOMAIN records : records[i].user_id = u} \ OutsideLookback(u)

\* after the cooldown was shortened a record lies outside the lookback
\* although its stored expiry is still ahead; another record of the user
\* is inside the lookback and active; the status was asked
C28_Witness ==
    \E u \in EvalUsers :
        /\ ret = StatusNow(u)
        /\ ret.call = "get_claim_status"
        /\ edits = 1
        /\ \E i \in OutsideLookback(u) : clock < records[i].cooldown_expires_at
        /\ ActiveInHistory(u) # {}

\* C29: a step that writes a ClaimRecord stamps it with claimedAt + the
\* cooldownMinutes the policy holds at that step, also when update_config
\* has changed cooldownMinutes since the claim started. It is stated for
\* policies with cooldownMinutes >= 1.
C29_ExpiryFromPolicyAtWrite ==
    [][(Len(records') = Len(records) + 1 /\ cfg.cooldown_minutes >= 1)
         => LET rec == records'[Len(records')]
            IN  rec.cooldown_expires_at = rec.claim_time + cfg.cooldown_minutes]_vars

\* the tiers among the weighted ones that have positive effective stock
StockedTiers(c, p) ==
    {ParseFloat(k) : k \in {w \in DOMAIN c.quota_weights :
                                EffectiveStockOf(c, p, ParseFloat(w)) > 0}}

\* C30: draw_random_quota returns "none" exactly when no weighted tier has
\* positive effective stock, and otherwise returns a tier that has,
\* without raising, whatever the non-negative weights are.
C30_DrawNoneIffNothingStocked ==
    ret.call = "draw_random_quota"
      => /\ ret.quota = NoQuota <=> StockedTiers(cfg, pool) = {}
         /\ StockedTiers(cfg, pool) # {} => ret.quota \in StockedTiers(cfg, pool)

\* the request r receives its success response in this step
Succeeds(r) == req[r].outcome # "success" /\ req'[r].outcome = "success"

\* the policy the status call reads after the step is the one the claim r
\* read at its eligibility check, and it is a valid one
SamePolicy(r) ==
    /\ req'[r].cooldown_minutes >= 1
    /\ get_cooldown_minutes(cfg') = req'[r].cooldown_minutes
    /\ get_claim_times(cfg') = req'[r].claim_times

\* C31: a successful claim returns remaining - 1, remaining being the value
\* of its own eligibility check; the returned value is >= 0 and is the
\* remaining count the status call reports right after the commit, under
\* the same policy and at the same instant.
C31_RemainingAfterClaim ==
    [][\A r \in Reqs :
         (Succeeds(r) /\ SamePolicy(r) /\ clock' = req'[r].now)
         => /\ claim_response(req'[r]).remaining_claims = req'[r].remaining_claims - 1
            /\ claim_response(req'[r]).remaining_claims >= 0
            /\ claim_response(req'[r]).remaining_claims
                 = claim_status(records', cfg', pool', req'[r].user_id, clock').remaining_claims]_vars

\* the request r enters claim_coupon in this step
Starts(r) == req[r].pc = "idle" /\ req'[r].pc \notin {"idle", "status_verifying"}

\* verify_user_by_main_session returns to the request r in this step, or
\* the request is cancelled while it waits there
Verified(r) == req[r].pc = "verifying" /\ req'[r].pc # "verifying"

\* user_sessions holds a row of this token that has not expired
ValidSession(token) ==
    \E row \in sessions.rows : row.session_token = token /\ clock < row.expires_at

\* the request r is answered 401 in this step
Answered401(r) ==
    /\ req'[r].pc = "done"
    /\ req'[r].outcome = "unauthorized"
    /\ claim_error(req'[r].outcome).status_code = 401

\* the step has not reached the eligibility check, the draw or the mint and
\* has changed no pool entry, stock, claim record or session
NothingDone(r) ==
    /\ req'[r].now = NoTime
    /\ req'[r].quota = NoQuota
    /\ req'[r].user_id = NoUser
    /\ mintCalls' = mintCalls
    /\ Tables' = Tables
    /\ sessions' = sessions

\* C32: a claim that comes with no valid unexpired local session and with no
\* main-site cookie that verifies ends in 401 before the eligibility check,
\* the draw and the mint, and changes no pool entry, stock or claim record;
\* a claim that is let in acts for the user of a valid session of its token
\* or for the user the main site verified, so an expired or deleted token
\* never authorizes it.
C32_UnauthorizedClaim ==
    [][\A r \in Reqs :
         /\ (Starts(r) /\ ~ValidSession(req'[r].coupon_session))
              => /\ NothingDone(r)
                 /\ IF req'[r].session THEN req'[r].pc = "verifying"
                    ELSE Answered401(r)
         /\ (Verified(r) /\ req'[r].user_info = NoUser)
              => /\ NothingDone(r)
                 /\ Answered401(r) \/ req'[r].outcome = "cancelled"
         /\ (req[r].user_id = NoUser /\ req'[r].user_id # NoUser)
              => \/ /\ Starts(r)
                    /\ \E row \in sessions.rows :
                          /\ row.session_token = req'[r].coupon_session
                          /\ clock < row.expires_at
                          /\ row.user_id = req'[r].user_id
                 \/ /\ Verified(r)
                    /\ req'[r].session
                    /\ req'[r].user_info = req'[r].user_id]_vars

\* two claims were turned away: one came with the token of a session that
\* is stored and has expired, the other with a token that was issued and
\* whose session is deleted; both carried a main-site cookie that did not
\* verify
C32_Witness ==
    \E r, q \in Reqs :
        /\ r # q
        /\ req[r].outcome = "unauthorized" /\ req[q].outcome = "unauthorized"
        /\ req[r].session /\ req[q].session
        /\ \E row \in sessions.rows :
              row.session_token = req[r].coupon_session /\ row.expires_at <= clock
        /\ req[q].coupon_session \in 1..sessions.issued
        /\ \A row \in sessions.rows : row.session_token # req[q].coupon_session

\* the user's awards whose claim time lies in the cooldown-long window
\* that starts at t
AwardsInWindow(u, t) ==
    {i \in DOMAIN records :
        /\ records[i].user_id = u
        /\ t <= records[i].claim_time
        /\ records[i].claim_time < t + cfg.cooldown_minutes}

\* C33: under a fixed policy, when the claims of a user do not overlap, the
\* user never has more than claimsPerWindow active claim records, and never
\* more than claimsPerWindow awards within an interval shorter than the
\* cooldown.
C33_RateLimit ==
    \A u \in Users :
        /\ Cardinality(ActiveInHistory(u)) <= Max2(1, cfg.claim_times)
        /\ \A t \in Instants :
              Cardinality(AwardsInWindow(u, t)) <= Max2(1, cfg.claim_times)

\* with two claims per window a user holds three awards, and a further
\* attempt of that user has just been turned away for cooling down
C33_Witness ==
    \E u \in Users :
        /\ cfg.claim_times = 2
        /\ Cardinality({i \in DOMAIN records : records[i].user_id = u}) = 3
        /\ \E r \in Reqs : req[r].user_id = u /\ req[r].outcome = "cooling"

\* the sum of the virtual stock of all tiers
StockSum(c) == SumOver(c.quota_stock, DOMAIN c.quota_stock)

\* the awards whose code was minted
MintedRecords == {i \in DOMAIN records : records[i].coupon_code > MintBase}

\* the claims whose code is minted and whose record is not written yet:
\* they wait for the top-up
AwaitingRecord == {r \in Reqs : req[r].pc = "topup"}

\* the units of stock left plus the minted awards, written or about to be
StockAndAwards ==
    StockSum(cfg) + Cardinality(MintedRecords) + Cardinality(AwaitingRecord)

\* a claim is cancelled in this step
Cancelling == \E r \in Reqs : req[r].outcome # "cancelled" /\ req'[r].outcome = "cancelled"

\* the stock map changes by one unit of one tier, taken from the map as it
\* is stored now
OneDecrement ==
    \E k \in DOMAIN cfg.quota_stock :
        cfg'.quota_stock = [cfg.quota_stock EXCEPT ![k] = @ - 1]

\* C34: stock updates are not lost. Whenever the stock map changes it is by
\* an admin edit or by a claim's decrement applied to the map as stored at
\* that moment, so that no write undoes another claim's decrement or the
\* admin's edit; and with no admin edit, once k minted claims have
\* succeeded the sum of the virtual stock has gone down by exactly k: as
\* long as no admin has edited, every step that cancels no claim takes one
\* unit of stock for each award it mints, so the stock sum plus the number
\* of minted awards stays what it was when the run started.
C34_StockUpdatesNotLost ==
    /\ [][cfg'.quota_stock # cfg.quota_stock
            => \/ edits' = edits + 1
               \/ /\ OneDecrement
                  /\ \E r \in Reqs : req[r].pc = "minting" /\ req'[r].deducted]_vars
    /\ [][(edits' = 0 /\ ~Cancelling) => StockAndAwards' = StockAndAwards]_vars

\* C35: the exhaustion check and the draw agree. On every policy and pool,
\* get_total_available_stock is positive exactly when draw_random_quota
\* returns a tier, so that a user whose status says canClaim does not have
\* the claim made next, with nothing changed in between, come back with
\* "none available".  A draw that raises on a zero weight total is left
\* aside here.
C35_ExhaustionCheckAgreesWithDraw ==
    (ret.call = "draw_random_quota" /\ ret.quota # DrawRaises) =>
        /\ (get_total_available_stock(cfg, pool) > 0) <=> (ret.quota # NoQuota)
        /\ \A u \in Users : StatusNow(u).can_claim => ret.quota # NoQuota

\* in this step time does not go back and no claim record is written
NoNewClaim == records' = records /\ clock' >= clock

\* every record the evaluator finds inactive now it finds inactive after
\* the step, and a user who can claim now can claim after the step
StaysInactive ==
    \A u \in EvalUsers :
        /\ \A i \in DOMAIN records :
              (records[i].user_id = u /\ i \notin active_claims(records, cfg, u, clock))
                => i \notin active_claims(records', cfg', u, clock')
        /\ calculate_user_cooldown_status(records, cfg, u, clock).can_claim
              => calculate_user_cooldown_status(records', cfg', u, clock').can_claim

\* C36 as stated: with time moving forward and no new claim, a record once
\* evaluated as inactive is never evaluated as active again, whatever the
\* admin does to cooldown_minutes, and canClaim does not go from true back
\* to false.  It is stated for edits between valid cooldowns (>= 1).
C36_InactiveStaysInactive ==
    [][(NoNewClaim /\ cfg.cooldown_minutes >= 1 /\ cfg'.cooldown_minutes >= 1)
          => StaysInactive]_vars

\* C36 as amended: the same, for edits that do not lengthen the cooldown.
C36_InactiveUnlessLengthened ==
    [][(NoNewClaim /\ cfg'.cooldown_minutes <= cfg.cooldown_minutes)
          => StaysInactive]_vars

\* the admin has edited the cooldown, and user 1 can claim although a
\* record of theirs has its stored expiry still ahead: the record is
\* inactive under the cooldown now in force only
C36_Witness ==
    /\ edits = 1
    /\ calculate_user_cooldown_status(records, cfg, 1, clock).can_claim
    /\ \E i \in DOMAIN records :
          /\ records[i].user_id = 1
          /\ clock < records[i].cooldown_expires_at
          /\ clock >= records[i].claim_time + cfg.cooldown_minutes
          /\ cfg.cooldown_minutes >= 1

\* the codes of the batch the last upload carried
Submitted == {ret.coupons[i] : i \in DOMAIN ret.coupons} \ {NoCode}

\* C37: bulk load is idempotent and keeps codes unique. A load adds every
\* submitted code that is not in the pool as an unclaimed manual entry of
\* the given tier and leaves the entries already there as they are; after
\* it every submitted code is in the pool, loading the same batch again
\* would add nothing, and no two pool entries share a code.
C37_BulkLoadIdempotent ==
    /\ [](ret.call = "upload_txt"
            => /\ Submitted \subseteq PoolCodes(pool)
               /\ ToAdd(ret.coupons, pool) = <<>>)
    /\ [](\A a, b \in pool : a.coupon_code = b.coupon_code => a = b)
    /\ [][edits' = edits + 1
            => /\ pool \subseteq pool'
               /\ \A row \in pool' \ pool :
                     /\ row.coupon_code \notin PoolCodes(pool)
                     /\ ~row.is_claimed
                     /\ row.claimed_by_user_id = NoUser
                     /\ row.source = "manual"
                     /\ (ret'.call = "upload_txt"
                          => /\ row.coupon_code \in {ret'.coupons[i] : i \in DOMAIN ret'.coupons}
                             /\ row.quota_dollars = ret'.quota)]_vars

\* the codes the batch of this step's upload holds more than once and the
\* pool does not hold yet
RepeatedNew ==
    {ret'.coupons[i] : i \in DOMAIN ret'.coupons} \cap
    {code \in ManualCodes \ PoolCodes(pool) :
        Cardinality({i \in DOMAIN ret'.coupons : ret'.coupons[i] = code}) > 1}

\* C38: a bulk load whose batch holds the same new code more than once
\* succeeds; that code is added exactly once and the other new codes of
\* the batch are added too.
C38_DuplicateInBatch ==
    [][(ret'.call = "upload_txt" /\ edits' = edits + 1 /\ RepeatedNew # {})
          => /\ ret'.status_code = 200
             /\ \A code \in RepeatedNew :
                   Cardinality({row \in pool' : row.coupon_code = code}) = 1
             /\ \A i \in DOMAIN ret'.coupons :
                   ret'.coupons[i] # NoCode => ret'.coupons[i] \in PoolCodes(pool')]_vars

\* the rows a deletion of this type and these ids is to remove
ToDelete(delete_type, ids) ==
    CASE delete_type = "selected" -> {row \in pool : row.id \in ids}
      [] delete_type = "all_available" -> {row \in pool : row.claimed_by_user_id = NoUser}
      [] delete_type = "all_claimed" -> {row \in pool : row.claimed_by_user_id # NoUser}
      [] delete_type = "all" -> pool
      [] OTHER -> {}

\* the step changes no claim record and no policy value, and every user's
\* eligibility verdict and waiting time stay what they were
RecordsAndPolicyKept ==
    /\ records' = records
    /\ cfg' = cfg
    /\ \A u \in Users :
          calculate_user_cooldown_status(records', cfg', u, clock')
            = calculate_user_cooldown_status(records, cfg, u, clock)

\* C39: a pool deletion respects its filter and its frame. A step of
\* delete_coupons_batch removes exactly the unclaimed entries for
\* all_available, the claimed ones for all_claimed, the listed ids for
\* selected and nothing for an unknown type, a step of delete_coupon
\* removes the entry of its id; no deletion changes a claim record or a
\* policy value, so no cooldown gets shorter.
C39_DeletionFilterAndFrame ==
    [][/\ \A body \in DeleteBodies :
            delete_coupons_batch(body.type, body.ids)
              => /\ pool' = pool \ ToDelete(body.type, body.ids)
                 /\ RecordsAndPolicyKept
       /\ \A id \in CouponIds :
            delete_coupon(id)
              => /\ pool' = pool \ ToDelete("selected", {id})
                 /\ RecordsAndPolicyKept]_vars

\* the admin has deleted the one claimed coupon and left the unclaimed one
\* in place; the award of the deleted coupon still counts against user 1,
\* who has one claim left of two
C39_Witness ==
    /\ edits = 1
    /\ pool # {}
    /\ \A row \in pool : ~row.is_claimed
    /\ Len(records) = 1
    /\ RowsOf(records[1].coupon_code) = {}
    /\ get_claim_times(cfg) = 2
    /\ calculate_user_cooldown_status(records, cfg, 1, clock).remaining_claims = 1
====
